---- MODULE Spec2Model ----
(***************************************************************************)
(* A model of photon's real-time audio engine: the command queue between   *)
(* the UI thread and the audio thread, Engine::process (drain, dry render, *)
(* Retrigger, TranceGate) and the two effects' parameter derivation.       *)
(*                                                                         *)
(* Sample values and factors are exact rationals <<n, d>> (d > 0, lowest   *)
(* terms).  The inputs used are small integers and dyadic factors, which   *)
(* f32 represents exactly, so the f32 arithmetic of the source is exact on *)
(* them as well.                                                           *)
(***************************************************************************)
EXTENDS Integers, Sequences, FiniteSets, TLC

VARIABLES
    index,          \* Engine.index: the playhead, in frames
    playing,        \* Engine.playing
    retrigger,      \* Engine.retrigger: [parameters, index]
    trance_gate,    \* Engine.trance_gate: [parameters, index, silent]
    into_engine,    \* the rtrb ring buffer UI -> Engine, oldest first
    buffer,         \* the host's output buffer of the current/last call
    pc,             \* audio thread: "idle" | "drain" | "render"
    nPushed,        \* history: number of successful pushes so far
    nPopped,        \* history: number of pops so far
    call,           \* history: facts recorded about the current/last process call:
                    \*   frames, pushes and pops counted when it began, the Engine
                    \*   then, the entries drained, the pushes counted when the drain
                    \*   ended, the Engine before rendering, the buffer between the
                    \*   two effects, the queue length at return
    last,           \* history: the message popped last in this call, and the effects before it
    atPause,        \* history: the effects as they were when Pause was processed
    shadow,         \* history: an Engine fed the same Play/Pause and calls, no effect commands
    fx,             \* the audio thread on its own (SpecFx): the Engine, the last
                    \*   call's buffers, and what was recorded about them
    ui              \* the UI thread (SpecQueue): whether it is still running

\* the variables of the Engine, its queue and their history
engineVars == <<index, playing, retrigger, trance_gate, into_engine, buffer, pc,
                nPushed, nPopped, call, last, atPause, shadow>>

vars == <<index, playing, retrigger, trance_gate, into_engine, buffer, pc,
          nPushed, nPopped, call, last, atPause, shadow, fx, ui>>

-----------------------------------------------------------------------------
(* Bounds of the model *)

\* frames in the sample store
NumFrames == 3
\* largest number of frames the host asks for in one call
MaxFrames == 2
\* process calls are made while the playhead can stay within this
MaxIndex == 4
\* pushes the UI makes in one run
MaxPushes == 3
\* commands the UI lets pile up before it waits for the audio thread
MaxPending == 2

(* Program constants *)

\* rtrb::RingBuffer::new(8)
QueueCapacity == 8
\* the factor of (repeat_duration * 44100.0)
SampleRate == 44100
\* the cap of fade_threshold
FadeCap == 441

\* Option<T>: None is the empty tuple, Some(x) the one-element tuple
None == <<>>
Some(x) == <<x>>
IsSome(o) == o # <<>>
Unwrap(o) == o[1]

-----------------------------------------------------------------------------
(* Exact rational arithmetic for f32 values *)

RECURSIVE GCD(_, _)
GCD(a, b) == IF b = 0 THEN a ELSE GCD(b, a % b)

Abs(x) == IF x < 0 THEN -x ELSE x

Min(a, b) == IF a < b THEN a ELSE b

Norm(n, d) ==
    LET g == GCD(Abs(n), d)
    IN  IF n = 0 THEN <<0, 1>> ELSE <<n \div g, d \div g>>

Zero == <<0, 1>>
One == <<1, 1>>

Mul(x, y) == Norm(x[1] * y[1], x[2] * y[2])
Add(x, y) == Norm(x[1] * y[2] + y[1] * x[2], x[2] * y[2])
Sub(x, y) == Norm(x[1] * y[2] - y[1] * x[2], x[2] * y[2])
Less(x, y) == x[1] * y[2] < y[1] * x[2]

\* f32::clamp(0.0, 1.0)
Clamp01(x) == IF Less(x, Zero) THEN Zero ELSE IF Less(One, x) THEN One ELSE x

\* usize::MAX.  usize is modelled 20 bits wide: wide enough for every frame
\* count of the model, narrow enough for the model checker's integers.
UsizeMax == 2^20 - 1

\* usize + and - as a build without overflow checks computes them
WrapAdd(a, b) == (a + b) % (UsizeMax + 1)
WrapSub(a, b) == (a - b) % (UsizeMax + 1)

\* `(x * 44100.0) as usize`, and the like, for x = n/d: a float-to-integer
\* cast truncates toward zero and saturates: at 0 for negative values and NaN,
\* at usize::MAX for large values and +infinity (written n/0, n > 0).
AsUsize(n, d) ==
    IF n <= 0 THEN 0
    ELSE IF d = 0 THEN UsizeMax
    ELSE Min(n \div d, UsizeMax)

-----------------------------------------------------------------------------
(* The sample store: interleaved stereo, all values distinct and non-zero *)

samples == [i \in 1..(2 * NumFrames) |-> <<i, 1>>]

\* self.samples[k] for a 0-based k
SampleAt(k) == samples[k + 1]

\* a host buffer arrives holding whatever the host left in it
Garbage == <<-7, 1>>

HostBuffer(frames) == [i \in 1..(2 * frames) |-> Garbage]

-----------------------------------------------------------------------------
(* core/effect/retrigger.rs *)

\* RetriggerParameters::new; repeat_duration is a rational number of seconds
RetriggerParameters_new(repeat_start, repeat_duration, mix_factor) ==
    LET repeat_samples == AsUsize(repeat_duration[1] * SampleRate, repeat_duration[2])
    IN  [repeat_start   |-> repeat_start,
         repeat_end     |-> WrapAdd(repeat_start, repeat_samples),
         fade_threshold |-> Min(repeat_samples \div 4, FadeCap),
         mix_factor     |-> Clamp01(mix_factor)]

\* a fade_factor whose attack starts from 0
Retrigger_fade_factor_fromZero(p, i) ==
    LET fade  == p.fade_threshold
        after == WrapSub(p.repeat_end, fade)
        until == WrapAdd(p.repeat_start, fade)
    IN  IF i < until THEN Norm(WrapSub(fade, until - i), fade)
        ELSE IF i > after THEN Norm(WrapAdd(WrapSub(fade, i - after), 1), fade)
        ELSE One

\* RetriggerParameters::fade_factor
Retrigger_fade_factor(p, i) ==
    LET fade  == p.fade_threshold
        after == WrapSub(p.repeat_end, fade)
        until == WrapAdd(p.repeat_start, fade)
    IN  IF i < until THEN Norm(WrapAdd(WrapSub(fade, until - i), 1), fade)
        ELSE IF i > after THEN Norm(WrapAdd(WrapSub(fade, i - after), 1), fade)
        ELSE One

\* RetriggerParameters::new: `repeat_start + repeat_samples` overflows
RetriggerParameters_new_faults(repeat_start, repeat_duration) ==
    repeat_start + AsUsize(repeat_duration[1] * SampleRate, repeat_duration[2]) > UsizeMax

\* RetriggerParameters::fade_factor: one of its usize operations overflows
\* (the sum is too large, or the difference would be negative)
Retrigger_fade_factor_faults(p, i) ==
    LET fade  == p.fade_threshold
        after == WrapSub(p.repeat_end, fade)
        until == WrapAdd(p.repeat_start, fade)
    IN  \/ p.repeat_end < fade
        \/ p.repeat_start + fade > UsizeMax
        \/ i < until /\ fade < until - i
        \/ i >= until /\ i > after /\ fade < i - after

\* what can go wrong in a step, as a set: "overflow" (a usize sum too large
\* or a usize difference below zero: a panic where overflow checks are on,
\* a wrapped value where they are off), "bounds" (an index out of bounds:
\* a panic in every build)
Overflow(b) == IF b THEN {"overflow"} ELSE {}
Bounds(b) == IF b THEN {"bounds"} ELSE {}

\* self.samples[f * 2 + 1], read once f * 2 was found below samples.len()
ReadFaults(f) == Bounds(f * 2 < Len(samples) /\ f * 2 + 1 >= Len(samples))

\* Retrigger::new
Retrigger_new == [parameters |-> None, index |-> None]

\* an initialize that starts the cursor at the head of the track
Retrigger_initialize_cursorZero(r, parameters) ==
    [parameters |-> Some(parameters), index |-> Some(0)]

\* an initialize that keeps the cursor of an effect that is already on
Retrigger_initialize_keepsCursor(r, parameters) ==
    [parameters |-> Some(parameters),
     index |-> IF IsSome(r.index) THEN r.index ELSE Some(parameters.repeat_start)]

\* Retrigger::initialize
Retrigger_initialize(r, parameters) ==
    [parameters |-> Some(parameters), index |-> Some(parameters.repeat_start)]

\* a deinitialize that clears the parameters and leaves the cursor
Retrigger_deinitialize_keepsIndex(r) == [parameters |-> None, index |-> r.index]

\* Retrigger::deinitialize
Retrigger_deinitialize(r) == [parameters |-> None, index |-> None]

\* a dry term that is not weighted
Original_unweighted(f, ch, mix_factor) ==
    IF f * 2 >= Len(samples) THEN Zero ELSE SampleAt(f * 2 + ch)

\* the dry term both effects mix in: the track at frame f, channel ch,
\* weighted 1 - mix_factor, or silence past the end of the track
Original(f, ch, mix_factor) ==
    IF f * 2 >= Len(samples) THEN Zero
    ELSE Mul(SampleAt(f * 2 + ch), Sub(One, mix_factor))

\* a loop that never takes the cursor back to repeat_start
RECURSIVE RetriggerFrames_noWrap(_, _, _, _, _)
RetriggerFrames_noWrap(p, cur, track_index, i, buf) ==
    IF i >= Len(buf) \div 2 THEN [index |-> cur, buffer |-> buf]
    ELSE
        LET ff == Retrigger_fade_factor(p, cur)
            wet(ch) == IF cur * 2 >= Len(samples) THEN Zero
                       ELSE Mul(Mul(ff, SampleAt(cur * 2 + ch)), p.mix_factor)
            out(ch) == Add(wet(ch), Original(track_index + i, ch, p.mix_factor))
        IN  RetriggerFrames_noWrap(p, cur + 1, track_index, i + 1,
                [buf EXCEPT ![2 * i + 1] = out(0), ![2 * i + 2] = out(1)])

\* a loop whose wet term is silent as soon as the dry frame is past the end
\* of the track
RECURSIVE RetriggerFrames_silentPastTrack(_, _, _, _, _)
RetriggerFrames_silentPastTrack(p, cur, track_index, i, buf) ==
    IF i >= Len(buf) \div 2 THEN [index |-> cur, buffer |-> buf]
    ELSE
        LET c  == IF cur >= p.repeat_end THEN p.repeat_start ELSE cur
            ff == Retrigger_fade_factor(p, c)
            wet(ch) == IF c * 2 >= Len(samples) \/ (track_index + i) * 2 >= Len(samples)
                       THEN Zero
                       ELSE Mul(Mul(ff, SampleAt(c * 2 + ch)), p.mix_factor)
            out(ch) == Add(wet(ch), Original(track_index + i, ch, p.mix_factor))
        IN  RetriggerFrames_silentPastTrack(p, c + 1, track_index, i + 1,
                [buf EXCEPT ![2 * i + 1] = out(0), ![2 * i + 2] = out(1)])

\* the loop of Retrigger::process from frame i on; cur is current_index
RECURSIVE RetriggerFrames(_, _, _, _, _)
RetriggerFrames(p, cur, track_index, i, buf) ==
    IF i >= Len(buf) \div 2 THEN [index |-> cur, buffer |-> buf]
    ELSE
        LET c  == IF cur >= p.repeat_end THEN p.repeat_start ELSE cur
            ff == Retrigger_fade_factor(p, c)
            wet(ch) == IF c * 2 >= Len(samples) THEN Zero
                       ELSE Mul(Mul(ff, SampleAt(c * 2 + ch)), p.mix_factor)
            out(ch) == Add(wet(ch), Original(track_index + i, ch, p.mix_factor))
        IN  RetriggerFrames(p, c + 1, track_index, i + 1,
                [buf EXCEPT ![2 * i + 1] = out(0), ![2 * i + 2] = out(1)])

\* the loop of Retrigger::process from frame i on: what goes wrong in it
RECURSIVE RetriggerFrames_faults(_, _, _, _, _)
RetriggerFrames_faults(p, cur, track_index, i, buf) ==
    IF i >= Len(buf) \div 2 THEN {}
    ELSE
        LET c == IF cur >= p.repeat_end THEN p.repeat_start ELSE cur
        IN  Overflow(Retrigger_fade_factor_faults(p, c))
            \cup ReadFaults(c)
            \cup ReadFaults(track_index + i)
            \cup Bounds(2 * i + 1 >= Len(buf))
            \cup RetriggerFrames_faults(p, c + 1, track_index, i + 1, buf)

\* a process that silences the buffer while the effect is off
Retrigger_process_quietsWhenOff(r, track_index, buf) ==
    IF ~IsSome(r.parameters) \/ ~IsSome(r.index)
    THEN [effect |-> r, buffer |-> [i \in 1..Len(buf) |-> Zero]]
    ELSE
        LET res == RetriggerFrames(Unwrap(r.parameters), Unwrap(r.index), track_index, 0, buf)
        IN  [effect |-> [r EXCEPT !.index = Some(res.index)], buffer |-> res.buffer]

\* Retrigger::process: the effect after the call, and the buffer
Retrigger_process(r, track_index, buf) ==
    IF ~IsSome(r.parameters) \/ ~IsSome(r.index)
    THEN [effect |-> r, buffer |-> buf]
    ELSE
        LET res == RetriggerFrames(Unwrap(r.parameters), Unwrap(r.index), track_index, 0, buf)
        IN  [effect |-> [r EXCEPT !.index = Some(res.index)], buffer |-> res.buffer]

-----------------------------------------------------------------------------
(* core/effect/trance_gate.rs *)

\* TranceGateParameters::new; gate_factor and beats_per_minute are positive
\* whole numbers here, so gate_duration * 44100 = 60 * 2 * 44100 / (bpm * factor)
TranceGateParameters_new(gate_start, gate_factor, beats_per_minute, mix_factor) ==
    LET gate_samples == AsUsize(60 * 2 * SampleRate, beats_per_minute * gate_factor)
    IN  [gate_start     |-> gate_start,
         gate_end       |-> WrapAdd(gate_start, gate_samples),
         fade_threshold |-> Min(gate_samples \div 2, FadeCap),
         mix_factor     |-> Clamp01(mix_factor)]

\* TranceGateParameters::fade_factor
TranceGate_fade_factor(p, i) ==
    LET fade  == p.fade_threshold
        after == WrapSub(p.gate_end, fade)
        until == WrapAdd(p.gate_start, fade)
    IN  IF i < until THEN Norm(WrapAdd(WrapSub(fade, until - i), 1), fade)
        ELSE IF i > after THEN Norm(WrapAdd(WrapSub(fade, i - after), 1), fade)
        ELSE One

\* TranceGateParameters::new: `gate_start + gate_samples` overflows
TranceGateParameters_new_faults(gate_start, gate_factor, beats_per_minute) ==
    gate_start + AsUsize(60 * 2 * SampleRate, beats_per_minute * gate_factor) > UsizeMax

\* TranceGateParameters::fade_factor: one of its usize operations overflows
TranceGate_fade_factor_faults(p, i) ==
    LET fade  == p.fade_threshold
        after == WrapSub(p.gate_end, fade)
        until == WrapAdd(p.gate_start, fade)
    IN  \/ p.gate_end < fade
        \/ p.gate_start + fade > UsizeMax
        \/ i < until /\ fade < until - i
        \/ i >= until /\ i > after /\ fade < i - after

\* TranceGate::new
TranceGate_new == [parameters |-> None, index |-> None, silent |-> FALSE]

\* TranceGate::initialize: silent is left as it is
TranceGate_initialize(g, parameters) ==
    [g EXCEPT !.parameters = Some(parameters), !.index = Some(parameters.gate_start)]

\* TranceGate::deinitialize
TranceGate_deinitialize(g) == [parameters |-> None, index |-> None, silent |-> FALSE]

\* the loop of TranceGate::process from frame i on
RECURSIVE TranceGateFrames(_, _, _, _, _, _)
TranceGateFrames(p, cur, silent, track_index, i, buf) ==
    IF i >= Len(buf) \div 2 THEN [index |-> cur, silent |-> silent, buffer |-> buf]
    ELSE
        LET wrap == cur >= p.gate_end
            s    == IF wrap THEN ~silent ELSE silent
            c    == IF wrap THEN p.gate_start ELSE cur
            ff   == TranceGate_fade_factor(p, c)
            gate(ch) == Mul(Mul(buf[2 * i + 1 + ch], ff), p.mix_factor)
            out(ch)  == IF s THEN Original(track_index + i, ch, p.mix_factor)
                        ELSE Add(gate(ch), Original(track_index + i, ch, p.mix_factor))
        IN  TranceGateFrames(p, c + 1, s, track_index, i + 1,
                [buf EXCEPT ![2 * i + 1] = out(0), ![2 * i + 2] = out(1)])

\* the loop of TranceGate::process from frame i on: what goes wrong in it
RECURSIVE TranceGateFrames_faults(_, _, _, _, _, _)
TranceGateFrames_faults(p, cur, silent, track_index, i, buf) ==
    IF i >= Len(buf) \div 2 THEN {}
    ELSE
        LET wrap == cur >= p.gate_end
            s    == IF wrap THEN ~silent ELSE silent
            c    == IF wrap THEN p.gate_start ELSE cur
        IN  Overflow(~s /\ TranceGate_fade_factor_faults(p, c))
            \cup ReadFaults(track_index + i)
            \cup Bounds(2 * i + 1 >= Len(buf))
            \cup TranceGateFrames_faults(p, c + 1, s, track_index, i + 1, buf)

\* TranceGate::process: the effect after the call, and the buffer
TranceGate_process(g, track_index, buf) ==
    IF ~IsSome(g.parameters) \/ ~IsSome(g.index)
    THEN [effect |-> g, buffer |-> buf]
    ELSE
        LET res == TranceGateFrames(Unwrap(g.parameters), Unwrap(g.index), g.silent,
                                    track_index, 0, buf)
        IN  [effect |-> [g EXCEPT !.index = Some(res.index), !.silent = res.silent],
             buffer |-> res.buffer]

-----------------------------------------------------------------------------
(* core/engine.rs *)

\* the RetriggerOn inputs tried: 2.5 frames (2 after the cast) with a
\* mix_factor above 1, and 8.5 frames (8 after the cast) with mix_factor 1/2
RetriggerInputs == { << <<5, 88200>>, <<3, 2>> >>, << <<17, 88200>>, <<1, 2>> >> }

\* the TranceGateOn inputs tried, <<gate_factor, beats_per_minute, mix_factor>>:
\* 2.5 frames (2 after the cast) at mix_factor 1, 4.5 frames (4) at 1/2
TranceGateInputs == { <<48, 44100, <<1, 1>> >>, <<40, 29400, <<1, 2>> >> }

\* enum MessageIntoEngine
MessageIntoEngine ==
    { [type |-> "Play"], [type |-> "Pause"],
      [type |-> "RetriggerOff"], [type |-> "TranceGateOff"] }
    \cup { [type |-> "RetriggerOn", repeat_duration |-> x[1], mix_factor |-> x[2]] :
             x \in RetriggerInputs }
    \cup { [type |-> "TranceGateOn", gate_factor |-> x[1], beats_per_minute |-> x[2],
            mix_factor |-> x[3]] : x \in TranceGateInputs }

\* the Engine's fields as one record
Engine == [index |-> index, playing |-> playing,
           retrigger |-> retrigger, trance_gate |-> trance_gate]

\* Engine::new
Engine_new == [index |-> 0, playing |-> FALSE,
               retrigger |-> Retrigger_new, trance_gate |-> TranceGate_new]

\* a Pause arm that also switches the effects off
OnPause_resetsEffects(e) ==
    [e EXCEPT !.playing = FALSE, !.retrigger = Retrigger_deinitialize(e.retrigger),
              !.trance_gate = TranceGate_deinitialize(e.trance_gate)]

\* the arm MessageIntoEngine::Pause
OnPause(e) == [e EXCEPT !.playing = FALSE]

\* match arms whose RetriggerOn also starts playback
Engine_handle_onStartsPlayback(e, message) ==
    CASE message.type = "Play" -> [e EXCEPT !.playing = TRUE]
      [] message.type = "Pause" -> OnPause(e)
      [] message.type = "RetriggerOn" ->
            [e EXCEPT !.playing = TRUE,
                      !.retrigger = Retrigger_initialize(e.retrigger,
                RetriggerParameters_new(e.index, message.repeat_duration, message.mix_factor))]
      [] message.type = "RetriggerOff" ->
            [e EXCEPT !.retrigger = Retrigger_deinitialize(e.retrigger)]
      [] message.type = "TranceGateOn" ->
            [e EXCEPT !.trance_gate = TranceGate_initialize(e.trance_gate,
                TranceGateParameters_new(e.index, message.gate_factor,
                                         message.beats_per_minute, message.mix_factor))]
      [] message.type = "TranceGateOff" ->
            [e EXCEPT !.trance_gate = TranceGate_deinitialize(e.trance_gate)]

\* match arms whose RetriggerOff also rewinds the playhead to where the
\* Retrigger was anchored
Engine_handle_offRewinds(e, message) ==
    CASE message.type = "Play" -> [e EXCEPT !.playing = TRUE]
      [] message.type = "Pause" -> OnPause(e)
      [] message.type = "RetriggerOn" ->
            [e EXCEPT !.retrigger = Retrigger_initialize(e.retrigger,
                RetriggerParameters_new(e.index, message.repeat_duration, message.mix_factor))]
      [] message.type = "RetriggerOff" ->
            [e EXCEPT !.retrigger = Retrigger_deinitialize(e.retrigger),
                      !.index = IF IsSome(e.retrigger.parameters)
                                THEN Unwrap(e.retrigger.parameters).repeat_start ELSE @]
      [] message.type = "TranceGateOn" ->
            [e EXCEPT !.trance_gate = TranceGate_initialize(e.trance_gate,
                TranceGateParameters_new(e.index, message.gate_factor,
                                         message.beats_per_minute, message.mix_factor))]
      [] message.type = "TranceGateOff" ->
            [e EXCEPT !.trance_gate = TranceGate_deinitialize(e.trance_gate)]

\* the match arms of Engine::process: Engine e after handling one message
Engine_handle(e, message) ==
    CASE message.type = "Play" -> [e EXCEPT !.playing = TRUE]
      [] message.type = "Pause" -> OnPause(e)
      [] message.type = "RetriggerOn" ->
            [e EXCEPT !.retrigger = Retrigger_initialize(e.retrigger,
                RetriggerParameters_new(e.index, message.repeat_duration, message.mix_factor))]
      [] message.type = "RetriggerOff" ->
            [e EXCEPT !.retrigger = Retrigger_deinitialize(e.retrigger)]
      [] message.type = "TranceGateOn" ->
            [e EXCEPT !.trance_gate = TranceGate_initialize(e.trance_gate,
                TranceGateParameters_new(e.index, message.gate_factor,
                                         message.beats_per_minute, message.mix_factor))]
      [] message.type = "TranceGateOff" ->
            [e EXCEPT !.trance_gate = TranceGate_deinitialize(e.trance_gate)]

\* the match arms of Engine::process: what goes wrong in handling the message
Engine_handle_faults(e, message) ==
    CASE message.type = "RetriggerOn" ->
            Overflow(RetriggerParameters_new_faults(e.index, message.repeat_duration))
      [] message.type = "TranceGateOn" ->
            Overflow(TranceGateParameters_new_faults(e.index, message.gate_factor,
                                                     message.beats_per_minute))
      [] OTHER -> {}

\* a quiet that zeroes one element per frame only
quiet_firstHalf(buf) == [i \in 1..Len(buf) |-> IF i <= Len(buf) \div 2 THEN Zero ELSE buf[i]]

\* quiet
quiet(buf) == [i \in 1..Len(buf) |-> Zero]

\* a dry loop that stops advancing self.index at the end of the track
RECURSIVE DryFrames_stopsAtEnd(_, _, _)
DryFrames_stopsAtEnd(idx, i, buf) ==
    IF i >= Len(buf) \div 2 THEN [index |-> idx, buffer |-> buf]
    ELSE
        LET v(ch) == IF idx * 2 >= Len(samples) THEN Zero ELSE SampleAt(idx * 2 + ch)
        IN  DryFrames_stopsAtEnd(IF idx * 2 >= Len(samples) THEN idx ELSE idx + 1, i + 1,
                [buf EXCEPT ![2 * i + 1] = v(0), ![2 * i + 2] = v(1)])

\* the dry loop of Engine::process from frame i on; idx is self.index
RECURSIVE DryFrames(_, _, _)
DryFrames(idx, i, buf) ==
    IF i >= Len(buf) \div 2 THEN [index |-> idx, buffer |-> buf]
    ELSE
        LET v(ch) == IF idx * 2 >= Len(samples) THEN Zero ELSE SampleAt(idx * 2 + ch)
        IN  DryFrames(idx + 1, i + 1,
                [buf EXCEPT ![2 * i + 1] = v(0), ![2 * i + 2] = v(1)])

\* a render in which an active Retrigger holds the playhead where it is
Engine_render_holdsPlayhead(e, buf) ==
    IF ~e.playing
    THEN [engine |-> e, wet |-> quiet(buf), buffer |-> quiet(buf)]
    ELSE
        LET track_index == e.index
            d == DryFrames(e.index, 0, buf)
            r == Retrigger_process(e.retrigger, track_index, d.buffer)
            g == TranceGate_process(e.trance_gate, track_index, r.buffer)
        IN  [engine |-> [index |-> IF IsSome(e.retrigger.parameters) THEN e.index ELSE d.index,
                         playing |-> e.playing,
                         retrigger |-> r.effect, trance_gate |-> g.effect],
             wet |-> r.buffer, buffer |-> g.buffer]

\* Engine::process after the drain: the Engine and the buffer after the call,
\* and the buffer as Retrigger::process left it (wet)
Engine_render(e, buf) ==
    IF ~e.playing
    THEN [engine |-> e, wet |-> quiet(buf), buffer |-> quiet(buf)]
    ELSE
        LET track_index == e.index
            d == DryFrames(e.index, 0, buf)
            r == Retrigger_process(e.retrigger, track_index, d.buffer)
            g == TranceGate_process(e.trance_gate, track_index, r.buffer)
        IN  [engine |-> [index |-> d.index, playing |-> e.playing,
                         retrigger |-> r.effect, trance_gate |-> g.effect],
             wet |-> r.buffer, buffer |-> g.buffer]

\* Engine::process after the drain: what goes wrong in the dry loop and in
\* the two effects
Engine_render_faults(e, buf) ==
    IF ~e.playing THEN {}
    ELSE
        LET frames == Len(buf) \div 2
            r == e.retrigger
            g == e.trance_gate
        IN  UNION { ReadFaults(e.index + i) \cup Bounds(2 * i + 1 >= Len(buf)) :
                    i \in 0..(frames - 1) }
            \cup (IF IsSome(r.parameters) /\ IsSome(r.index)
                  THEN RetriggerFrames_faults(Unwrap(r.parameters), Unwrap(r.index),
                                              e.index, 0, buf)
                  ELSE {})
            \cup (IF IsSome(g.parameters) /\ IsSome(g.index)
                  THEN TranceGateFrames_faults(Unwrap(g.parameters), Unwrap(g.index),
                                               g.silent, e.index, 0, buf)
                  ELSE {})

\* a pop that returns the newest message
PopOf_newest(q) == q[Len(q)]

\* the message Consumer::pop returns: the oldest in the ring buffer
PopOf(q) == Head(q)

\* the ring buffer after that pop
RestOf(q) == Tail(q)

\* the ring buffer after Producer::push
PushOnto(q, entry) == Append(q, entry)

-----------------------------------------------------------------------------
(* The state machine *)

\* fx and ui where they are not in use
NoFx == <<>>
NoUi == <<>>

NoCall == [frames |-> 0, pushed0 |-> 0, popped0 |-> 0, engine0 |-> Engine_new,
           drained |-> <<>>, drainEnd |-> None, before |-> None, wet |-> <<>>,
           left |-> 0]

\* the Engine as constructed, an empty queue, nothing recorded
EngineInit ==
    /\ index = Engine_new.index
    /\ playing = Engine_new.playing
    /\ retrigger = Engine_new.retrigger
    /\ trance_gate = Engine_new.trance_gate
    /\ into_engine = <<>>
    /\ buffer = <<>>
    /\ pc = "idle"
    /\ nPushed = 0
    /\ nPopped = 0
    /\ call = NoCall
    /\ last = None
    /\ atPause = None
    /\ shadow = [index |-> 0, playing |-> FALSE, buffer |-> <<>>, diverged |-> FALSE]

Init ==
    /\ EngineInit
    /\ fx = NoFx
    /\ ui = NoUi

\* the UI thread pushes a message; the push succeeds while the queue is not full
Push(message) ==
    /\ Len(into_engine) < QueueCapacity
    /\ Len(into_engine) < MaxPending
    /\ nPushed < MaxPushes
    /\ into_engine' = PushOnto(into_engine, [message |-> message, seq |-> nPushed + 1])
    /\ nPushed' = nPushed + 1
    /\ UNCHANGED <<index, playing, retrigger, trance_gate, buffer, pc,
                   nPopped, call, last, atPause, shadow, fx, ui>>

\* the audio host calls Engine::process with a buffer of `frames` frames
ProcessBegin(frames) ==
    /\ pc = "idle"
    /\ index + frames <= MaxIndex
    /\ pc' = "drain"
    /\ buffer' = HostBuffer(frames)
    /\ call' = [NoCall EXCEPT !.frames = frames, !.pushed0 = nPushed,
                              !.popped0 = nPopped, !.engine0 = Engine]
    /\ last' = None
    /\ shadow' = [shadow EXCEPT !.buffer = HostBuffer(frames)]
    /\ UNCHANGED <<index, playing, retrigger, trance_gate, into_engine,
                   nPushed, nPopped, atPause, fx, ui>>

\* pop is called only at the head of the while loop, before anything is rendered
\* a later stage of the call that would (wrongly) still pop
Draining_whileRendering == pc \in {"drain", "render"}

\* a loop that pops only while the Engine is playing
Draining_whilePlaying == pc = "drain" /\ playing

Draining == pc = "drain"

\* one iteration of `while let Ok(message) = self.into_engine.pop()`
Pop ==
    /\ Draining
    /\ into_engine # <<>>
    /\ LET entry == PopOf(into_engine)
           message == entry.message
           e == Engine_handle(Engine, message)
       IN  /\ into_engine' = [i \in 1..(Len(into_engine) - 1) |->
                                 (SelectSeq(into_engine, LAMBDA x : x # entry))[i]]
           /\ index' = e.index
           /\ playing' = e.playing
           /\ retrigger' = e.retrigger
           /\ trance_gate' = e.trance_gate
           /\ nPopped' = nPopped + 1
           /\ call' = [call EXCEPT !.drained = Append(@, entry)]
           /\ last' = Some([message |-> message, retrigger |-> retrigger,
                            trance_gate |-> trance_gate])
           /\ atPause' =
                CASE message.type = "Pause" ->
                        Some([retrigger |-> retrigger, trance_gate |-> trance_gate, calls |-> 0])
                  [] message.type = "Play" -> atPause
                  [] OTHER -> None
           /\ shadow' =
                IF message.type \in {"Play", "Pause"}
                THEN [shadow EXCEPT !.playing = (message.type = "Play")]
                ELSE shadow
    /\ UNCHANGED <<buffer, pc, nPushed, fx, ui>>

\* `if let` in place of `while let`: the drain ends after one message
DrainEnd_afterOne ==
    /\ pc = "drain"
    /\ into_engine = <<>> \/ Len(call.drained) >= 1
    /\ pc' = "render"
    /\ call' = [call EXCEPT !.drainEnd = Some(nPushed)]
    /\ UNCHANGED <<index, playing, retrigger, trance_gate, into_engine, buffer,
                   nPushed, nPopped, last, atPause, shadow, fx, ui>>

\* pop returns Err: the queue is empty and the drain loop ends
DrainEnd ==
    /\ pc = "drain"
    /\ into_engine = <<>>
    /\ pc' = "render"
    /\ call' = [call EXCEPT !.drainEnd = Some(nPushed)]
    /\ UNCHANGED <<index, playing, retrigger, trance_gate, into_engine, buffer,
                   nPushed, nPopped, last, atPause, shadow, fx, ui>>

\* the rest of Engine::process: silence, or the dry track and the two effects
Render ==
    /\ pc = "render"
    /\ LET res == Engine_render(Engine, buffer)
           sh  == Engine_render([Engine_new EXCEPT !.index = shadow.index,
                                                   !.playing = shadow.playing],
                                shadow.buffer)
       IN  /\ index' = res.engine.index
           /\ playing' = res.engine.playing
           /\ retrigger' = res.engine.retrigger
           /\ trance_gate' = res.engine.trance_gate
           /\ buffer' = res.buffer
           /\ call' = [call EXCEPT !.engine0 = Engine_new, !.drained = <<>>,
                                    !.before = Some(Engine), !.wet = res.wet,
                                    !.left = Len(into_engine)]
           /\ shadow' = [index |-> sh.engine.index, playing |-> sh.engine.playing,
                         buffer |-> sh.buffer,
                         diverged |-> shadow.diverged \/ res.buffer # sh.buffer]
    /\ atPause' = IF playing \/ ~IsSome(atPause) THEN None
                  ELSE Some([Unwrap(atPause) EXCEPT !.calls = Min(@ + 1, 2)])
    /\ last' = None
    /\ pc' = "idle"
    /\ UNCHANGED <<into_engine, nPushed, nPopped, fx, ui>>

Next ==
    \/ \E message \in MessageIntoEngine : Push(message)
    \/ \E frames \in 1..MaxFrames : ProcessBegin(frames)
    \/ Pop
    \/ DrainEnd
    \/ Render

Spec == Init /\ [][Next]_vars

-----------------------------------------------------------------------------
(* The audio thread on its own: the Engine handles commands one by one and *)
(* renders calls, with a wider choice of commands than the UI sends        *)

\* process calls are made while the playhead can stay within this
FxMaxIndex == 5

\* the RetriggerOn inputs tried, <<repeat_duration, mix_factor>>: 0 frames,
\* 2.5 frames (2 after the cast), 4.5 (4) and 8.5 (8) at mix_factor 1, 8.5 at
\* 1/2, and +infinity seconds
FxRetriggerInputs ==
    { << <<0, 1>>, One >>, << <<5, 88200>>, <<3, 2>> >>, << <<9, 88200>>, One >>,
      << <<17, 88200>>, One >>, << <<17, 88200>>, <<1, 2>> >>, << <<1, 0>>, One >> }

\* the TranceGateOn inputs tried, <<gate_factor, beats_per_minute, mix_factor>>:
\* 2.5 frames (2 after the cast) at mix_factor 1, 4.5 (4) at 1 and at 1/2, and
\* gate_factor 0, whose gate_duration is +infinity
FxTranceGateInputs ==
    { <<48, 44100, One>>, <<40, 29400, One>>, <<40, 29400, <<1, 2>> >>,
      <<0, 44100, One>> }

FxMessages ==
    { [type |-> "Play"], [type |-> "Pause"],
      [type |-> "RetriggerOff"], [type |-> "TranceGateOff"] }
    \cup { [type |-> "RetriggerOn", repeat_duration |-> x[1], mix_factor |-> x[2]] :
             x \in FxRetriggerInputs }
    \cup { [type |-> "TranceGateOn", gate_factor |-> x[1], beats_per_minute |-> x[2],
            mix_factor |-> x[3]] : x \in FxTranceGateInputs }

\* fx: checks (the build has overflow checks), engine, panicked, faults (what
\* has gone wrong so far), played (a Play has been handled), the frames each
\* effect has rendered since it was switched on, and, where the last step was
\* a call: before (the Engine before it), frames, wet and buffer
FxInit ==
    /\ EngineInit
    /\ ui = NoUi
    /\ \E checks \in BOOLEAN :
         fx = [checks |-> checks, engine |-> Engine_new, panicked |-> FALSE,
               faults |-> {}, played |-> FALSE, before |-> None, frames |-> 0,
               wet |-> <<>>, buffer |-> <<>>, since_r |-> 0, since_g |-> 0]

\* a step in which `faults` go wrong panics
Panics(checks, faults) == "bounds" \in faults \/ (checks /\ "overflow" \in faults)

\* one iteration of the drain loop: the Engine handles `message`
FxHandle(message) ==
    /\ ~fx.panicked
    /\ LET e == fx.engine
           faults == Engine_handle_faults(e, message)
           seen == [fx EXCEPT !.faults = @ \cup faults, !.before = None,
                              !.frames = 0, !.wet = <<>>, !.buffer = <<>>]
       IN  fx' = IF Panics(fx.checks, faults)
                 THEN [seen EXCEPT !.panicked = TRUE]
                 ELSE [seen EXCEPT
                         !.engine = Engine_handle(e, message),
                         !.played = @ \/ message.type = "Play",
                         !.since_r = IF message.type \in {"RetriggerOn", "RetriggerOff"}
                                     THEN 0 ELSE @,
                         !.since_g = IF message.type \in {"TranceGateOn", "TranceGateOff"}
                                     THEN 0 ELSE @]
    /\ UNCHANGED <<engineVars, ui>>

\* the rest of a call of `frames` frames
FxProcess(frames) ==
    /\ ~fx.panicked
    /\ fx.engine.index + frames <= FxMaxIndex
    /\ LET e == fx.engine
           faults == Engine_render_faults(e, HostBuffer(frames))
           res == Engine_render(e, HostBuffer(frames))
           seen == [fx EXCEPT !.faults = @ \cup faults,
                              !.before = Some(e), !.frames = frames,
                              !.wet = <<>>, !.buffer = <<>>]
       IN  fx' = IF Panics(fx.checks, faults)
                 THEN [seen EXCEPT !.panicked = TRUE]
                 ELSE [seen EXCEPT
                         !.engine = res.engine, !.wet = res.wet, !.buffer = res.buffer,
                         !.since_r = IF e.playing /\ IsSome(e.retrigger.parameters)
                                     THEN @ + frames ELSE @,
                         !.since_g = IF e.playing /\ IsSome(e.trance_gate.parameters)
                                     THEN @ + frames ELSE @]
    /\ UNCHANGED <<engineVars, ui>>

FxNext ==
    \/ \E message \in FxMessages : FxHandle(message)
    \/ \E frames \in 1..MaxFrames : FxProcess(frames)

SpecFx == FxInit /\ [][FxNext]_vars

-----------------------------------------------------------------------------
(* An effect's process called on its own, with any track_index and buffer *)

\* the buffers tried: empty, one float, one frame, two frames
CallBuffers ==
    { <<>>, <<Garbage>>, <<One, Zero>>, <<Garbage, One, Zero, <<1, 2>> >> }

\* a Retrigger as Retrigger::new, initialize and process can leave it
CallRetriggers ==
    { Retrigger_new }
    \cup { Retrigger_process(
               Retrigger_initialize(Retrigger_new,
                                    RetriggerParameters_new(start, x[1], x[2])),
               start, HostBuffer(frames)).effect :
             start \in 0..MaxFrames, x \in RetriggerInputs, frames \in 0..MaxFrames }

\* a TranceGate as TranceGate::new, initialize and process can leave it
CallTranceGates ==
    { TranceGate_new }
    \cup { TranceGate_process(
               TranceGate_initialize(TranceGate_new,
                                     TranceGateParameters_new(start, x[1], x[2], x[3])),
               start, HostBuffer(frames)).effect :
             start \in 0..MaxFrames, x \in TranceGateInputs, frames \in 0..MaxFrames }

\* fx: which effect is called, its state, the arguments, and the result once
\* the call has returned
CallInit ==
    /\ EngineInit
    /\ ui = NoUi
    /\ \E track_index \in 0..MaxIndex, input \in CallBuffers :
         \/ \E r \in CallRetriggers :
               fx = [effect |-> "retrigger", state |-> r, track_index |-> track_index,
                     input |-> input, result |-> None]
         \/ \E g \in CallTranceGates :
               fx = [effect |-> "trance_gate", state |-> g, track_index |-> track_index,
                     input |-> input, result |-> None]

\* Retrigger::process(track_index, buffer)
CallRetrigger ==
    /\ fx.effect = "retrigger" /\ ~IsSome(fx.result)
    /\ fx' = [fx EXCEPT !.result = Some(Retrigger_process(fx.state, fx.track_index, fx.input))]
    /\ UNCHANGED <<engineVars, ui>>

\* TranceGate::process(track_index, buffer)
CallTranceGate ==
    /\ fx.effect = "trance_gate" /\ ~IsSome(fx.result)
    /\ fx' = [fx EXCEPT !.result = Some(TranceGate_process(fx.state, fx.track_index, fx.input))]
    /\ UNCHANGED <<engineVars, ui>>

CallNext == CallRetrigger \/ CallTranceGate

SpecCall == CallInit /\ [][CallNext]_vars

-----------------------------------------------------------------------------
(* The UI thread against the queue: PhotonPlayer::play and ::pause push,   *)
(* the audio thread pops, and nothing keeps the UI from running ahead      *)

\* the commands PhotonPlayer::play and PhotonPlayer::pause push
UiMessages == { [type |-> "Play"], [type |-> "Pause"] }

\* ui: running (the UI thread has not panicked), last (how the last push
\* attempt went: "none" so far, "pushed", or "full"), and queue0 (the queue
\* as a push attempt that found it full found it)
QueueInit ==
    /\ EngineInit
    /\ fx = NoFx
    /\ ui = [running |-> TRUE, last |-> "none", queue0 |-> None]

\* self.into_engine.push(message).unwrap(): push returns Err(Full) when the
\* ring buffer holds QueueCapacity messages, and unwrap panics on an Err
UiPush(message) ==
    /\ ui.running
    /\ IF Len(into_engine) < QueueCapacity
       THEN /\ into_engine' = PushOnto(into_engine, [message |-> message, seq |-> 0])
            /\ ui' = [running |-> TRUE, last |-> "pushed", queue0 |-> None]
       ELSE /\ into_engine' = into_engine
            /\ ui' = [running |-> FALSE, last |-> "full", queue0 |-> Some(into_engine)]
    /\ UNCHANGED <<index, playing, retrigger, trance_gate, buffer, pc,
                   nPushed, nPopped, call, last, atPause, shadow, fx>>

\* one iteration of the drain loop, while the process is alive
AudioPop ==
    /\ ui.running
    /\ into_engine # <<>>
    /\ LET e == Engine_handle(Engine, PopOf(into_engine).message)
       IN  /\ index' = e.index
           /\ playing' = e.playing
           /\ retrigger' = e.retrigger
           /\ trance_gate' = e.trance_gate
    /\ into_engine' = RestOf(into_engine)
    /\ UNCHANGED <<buffer, pc, nPushed, nPopped, call, last, atPause, shadow, fx, ui>>

QueueNext ==
    \/ \E message \in UiMessages : UiPush(message)
    \/ AudioPop

SpecQueue == QueueInit /\ [][QueueNext]_vars

-----------------------------------------------------------------------------
(* PhotonPlayer's effect pads: every UI frame each pad reports On while    *)
(* its key is down, else Off in the frame its key was released             *)

\* UI frames begin while at most this many commands wait in the queue
PadMaxPending == 3

\* the On commands counted for one continuous hold of a pad
PadMaxOns == 2

\* the pads, in the order update() shows them: two Retrigger pads and one
\* TranceGate pad of the eight
Pads == << [effect |-> "retrigger", factor |-> 4],
           [effect |-> "retrigger", factor |-> 8],
           [effect |-> "trance_gate", factor |-> 4] >>

\* the On command PhotonPlayer pushes for a pad: 60.0 / 196.0 * 4.0 / factor
\* seconds at mix_factor 0.9
PadOn(pad) ==
    IF pad.effect = "retrigger"
    THEN [type |-> "RetriggerOn", repeat_duration |-> <<60 * 4, 196 * pad.factor>>,
          mix_factor |-> <<9, 10>>]
    ELSE [type |-> "TranceGateOn", gate_duration |-> <<60 * 4, 196 * pad.factor>>,
          mix_factor |-> <<9, 10>>]

\* the Off command for a pad
PadOff(pad) ==
    IF pad.effect = "retrigger" THEN [type |-> "RetriggerOff"]
    ELSE [type |-> "TranceGateOff"]

\* self.into_engine.push(message).unwrap() on queue q: the queue after it,
\* and whether unwrap returned
PushUnwrap(q, message) ==
    IF Len(q) < QueueCapacity
    THEN [queue |-> PushOnto(q, [message |-> message, seq |-> 0]), returned |-> TRUE]
    ELSE [queue |-> q, returned |-> FALSE]

\* a handler whose Off arm pushes whatever the asserted factor is
PhotonPlayer_pad_offAlways(active, q, pad, event) ==
    IF event = "On"
    THEN IF active = None \/ active # Some(pad.factor)
         THEN LET r == PushUnwrap(q, PadOn(pad))
              IN  [active |-> Some(pad.factor), queue |-> r.queue, returned |-> r.returned]
         ELSE [active |-> active, queue |-> q, returned |-> TRUE]
    ELSE LET r == PushUnwrap(q, PadOff(pad))
         IN  [active |-> IF r.returned THEN None ELSE active,
              queue |-> r.queue, returned |-> r.returned]

\* a handler whose Off arm clears the asserted factor on the release of any
\* pad of the effect, pushing Off only for the asserted one
PhotonPlayer_pad_clearsOnAnyRelease(active, q, pad, event) ==
    IF event = "On"
    THEN IF active = None \/ active # Some(pad.factor)
         THEN LET r == PushUnwrap(q, PadOn(pad))
              IN  [active |-> Some(pad.factor), queue |-> r.queue, returned |-> r.returned]
         ELSE [active |-> active, queue |-> q, returned |-> TRUE]
    ELSE IF active = Some(pad.factor)
         THEN LET r == PushUnwrap(q, PadOff(pad))
              IN  [active |-> IF r.returned THEN None ELSE active,
                   queue |-> r.queue, returned |-> r.returned]
         ELSE [active |-> None, queue |-> q, returned |-> TRUE]

\* PhotonPlayer::retrigger(factor, event) and PhotonPlayer::trance_gate(factor,
\* event), which differ in the field and the commands only: the asserted
\* factor and the queue after the call, and whether the call returned
PhotonPlayer_pad(active, q, pad, event) ==
    IF event = "On"
    THEN IF active = None \/ active # Some(pad.factor)
         THEN LET r == PushUnwrap(q, PadOn(pad))
              IN  [active |-> Some(pad.factor), queue |-> r.queue, returned |-> r.returned]
         ELSE [active |-> active, queue |-> q, returned |-> TRUE]
    ELSE IF active = Some(pad.factor)
         THEN LET r == PushUnwrap(q, PadOff(pad))
              IN  [active |-> IF r.returned THEN None ELSE active,
                   queue |-> r.queue, returned |-> r.returned]
         ELSE [active |-> active, queue |-> q, returned |-> TRUE]

\* ui: running, active_retrigger and active_trance_gate (PhotonPlayer's
\* fields), pc (0 between frames, else the pad to show next), down and
\* released (the keys down in this frame, and those released in it), ons (per
\* pad, the On commands pushed while it has been held without a break), call
\* (the last handler call: pad, event, the asserted factor before and after
\* it, the commands it pushed, whether it returned)
PadInit ==
    /\ EngineInit
    /\ fx = NoFx
    /\ ui = [running |-> TRUE, active_retrigger |-> None, active_trance_gate |-> None,
             pc |-> 0, down |-> {}, released |-> {},
             ons |-> [i \in 1..Len(Pads) |-> 0], call |-> None]

\* a UI frame begins: egui hands update() the keys that are down and those
\* that were released since the last frame
FrameBegin(down, released) ==
    /\ ui.running /\ ui.pc = 0
    /\ Len(into_engine) <= PadMaxPending
    /\ (ui.down \ down) \subseteq released
    /\ ui' = [ui EXCEPT !.pc = 1, !.down = down, !.released = released,
                        !.call = None,
                        !.ons = [i \in 1..Len(Pads) |->
                                   IF i \in down /\ i \in ui.down /\ i \notin released
                                   THEN ui.ons[i] ELSE 0]]
    /\ UNCHANGED <<engineVars, fx>>

\* EffectPad::show of the next pad, and the handler it calls
PadShow ==
    /\ ui.running /\ ui.pc >= 1
    /\ LET i == ui.pc
           pad == Pads[i]
           event == IF i \in ui.down THEN "On"
                    ELSE IF i \in ui.released THEN "Off" ELSE "none"
           before == IF pad.effect = "retrigger" THEN ui.active_retrigger
                     ELSE ui.active_trance_gate
           r == PhotonPlayer_pad(before, into_engine, pad, event)
           pushed == IF Len(r.queue) > Len(into_engine)
                     THEN <<r.queue[Len(r.queue)].message>> ELSE <<>>
           next == [ui EXCEPT !.pc = IF i = Len(Pads) THEN 0 ELSE i + 1,
                              !.released = IF i = Len(Pads) THEN {} ELSE @]
       IN  IF event = "none"
           THEN /\ ui' = [next EXCEPT !.call = None]
                /\ into_engine' = into_engine
           ELSE /\ into_engine' = r.queue
                /\ ui' = [next EXCEPT
                            !.running = r.returned,
                            !.active_retrigger =
                                IF pad.effect = "retrigger" THEN r.active ELSE @,
                            !.active_trance_gate =
                                IF pad.effect = "trance_gate" THEN r.active ELSE @,
                            !.ons[i] = IF event = "On" /\ pushed # <<>>
                                       THEN Min(@ + 1, PadMaxOns) ELSE @,
                            !.call = Some([pad |-> pad, event |-> event,
                                           before |-> before, after |-> r.active,
                                           pushed |-> pushed, returned |-> r.returned])]
    /\ UNCHANGED <<index, playing, retrigger, trance_gate, buffer, pc,
                   nPushed, nPopped, call, last, atPause, shadow, fx>>

\* the audio thread pops the oldest command
PadPop ==
    /\ ui.running
    /\ into_engine # <<>>
    /\ into_engine' = RestOf(into_engine)
    /\ UNCHANGED <<index, playing, retrigger, trance_gate, buffer, pc,
                   nPushed, nPopped, call, last, atPause, shadow, fx, ui>>

PadNext ==
    \/ \E down \in SUBSET (1..Len(Pads)), released \in SUBSET (1..Len(Pads)) :
          FrameBegin(down, released)
    \/ PadShow
    \/ PadPop

SpecPad == PadInit /\ [][PadNext]_vars

-----------------------------------------------------------------------------
(* core/audio.rs: SamplesInMemory::copy_from_onto called on its own, with  *)
(* any start_offset and buffer                                             *)

\* the longest buffer tried, in floats; longer than the store
CopyMaxLen == 7

\* Sample::MID of f32, the silence written past the end of the store
F32_MID == Zero

\* a copy that leaves the part of the buffer past the end of the store as found
copy_from_onto_keepsTail(start_offset, buf) ==
    IF start_offset >= Len(samples)
    THEN [panicked |-> TRUE, buffer |-> buf]
    ELSE [panicked |-> FALSE,
          buffer |-> [j \in 1..Len(buf) |->
                        IF start_offset + j <= Len(samples)
                        THEN samples[start_offset + j] ELSE buf[j]]]

\* SamplesInMemory::copy_from_onto(start_offset, buffer): the buffer as the
\* call leaves it, and whether the call panicked
copy_from_onto(start_offset, buf) ==
    IF start_offset >= Len(samples)
    THEN [panicked |-> TRUE, buffer |-> buf]
    ELSE LET end_offset == start_offset + Len(buf)
         IN  IF end_offset > Len(samples)
             THEN LET overflow == end_offset - Len(samples)
                      end_offset2 == end_offset - overflow
                      total_len == end_offset2 - start_offset
                  IN  [panicked |-> FALSE,
                       buffer |-> [j \in 1..Len(buf) |->
                                     IF j <= total_len
                                     THEN SampleAt(start_offset + j - 1)
                                     ELSE F32_MID]]
             ELSE [panicked |-> FALSE,
                   buffer |-> [j \in 1..Len(buf) |-> SampleAt(start_offset + j - 1)]]

\* fx: the arguments of the call, and the result once it has returned
CopyInit ==
    /\ EngineInit
    /\ ui = NoUi
    /\ \E start_offset \in 0..(Len(samples) + 2), n \in 0..CopyMaxLen :
          fx = [start_offset |-> start_offset, input |-> [j \in 1..n |-> Garbage],
                result |-> None]

CopyCall ==
    /\ ~IsSome(fx.result)
    /\ fx' = [fx EXCEPT !.result = Some(copy_from_onto(fx.start_offset, fx.input))]
    /\ UNCHANGED <<engineVars, ui>>

CopyNext == CopyCall

SpecCopy == CopyInit /\ [][CopyNext]_vars

-----------------------------------------------------------------------------
(* Engine::new on any sample store, of even or odd length, and the dry     *)
(* loop of Engine::process reading from that store                         *)

\* the longest store tried, in floats
StoreMaxLen == 5

\* the playhead up to which calls on these stores are followed
StoreMaxIndex == 3

\* Engine::new(samples, ..) returns the Engine, whatever the store's length
Engine_new_from(store) ==
    [samples |-> store, index |-> 0, playing |-> FALSE]

\* the dry loop on frame f of the store indexes [f * 2 + 1] whenever
\* f * 2 < len: past the end when len is odd and f is its last, half frame
StoreReadFaults(store, f) == Bounds(f * 2 < Len(store) /\ f * 2 + 1 >= Len(store))

\* the stereo pair the dry loop reads for frame f
StoreFrame(store, f) ==
    IF f * 2 < Len(store) /\ f * 2 + 1 < Len(store)
    THEN <<store[f * 2 + 1], store[f * 2 + 2]>>
    ELSE <<Zero, Zero>>

\* fx: the store handed to Engine::new, the Engine once constructed, whether
\* a call has panicked, and the buffer of the last call
StoreInit ==
    /\ EngineInit
    /\ ui = NoUi
    /\ \E n \in 0..StoreMaxLen :
          fx = [samples |-> [i \in 1..n |-> <<i, 1>>], engine |-> None,
                panicked |-> FALSE, buffer |-> <<>>]

StoreNew ==
    /\ ~IsSome(fx.engine)
    /\ fx' = [fx EXCEPT !.engine = Some(Engine_new_from(fx.samples))]
    /\ UNCHANGED <<engineVars, ui>>

\* Engine::process draining one Play or Pause
StoreHandle(message) ==
    /\ IsSome(fx.engine) /\ ~fx.panicked
    /\ fx' = [fx EXCEPT !.engine = Some([Unwrap(fx.engine) EXCEPT
                                          !.playing = (message.type = "Play")])]
    /\ UNCHANGED <<engineVars, ui>>

\* Engine::process rendering `frames` frames from the store
StoreProcess(frames) ==
    /\ IsSome(fx.engine) /\ ~fx.panicked
    /\ LET e == Unwrap(fx.engine)
           faults == UNION { StoreReadFaults(e.samples, e.index + i) : i \in 0..(frames - 1) }
       IN  /\ e.index + frames <= StoreMaxIndex
           /\ IF ~e.playing
              THEN fx' = [fx EXCEPT !.buffer = quiet(HostBuffer(frames))]
              ELSE IF faults # {}
              THEN fx' = [fx EXCEPT !.panicked = TRUE]
              ELSE fx' = [fx EXCEPT
                            !.engine = Some([e EXCEPT !.index = e.index + frames]),
                            !.buffer = [j \in 1..(2 * frames) |->
                                          StoreFrame(e.samples, e.index + ((j - 1) \div 2))
                                              [((j - 1) % 2) + 1]]]
    /\ UNCHANGED <<engineVars, ui>>

StoreNext ==
    \/ StoreNew
    \/ \E message \in UiMessages : StoreHandle(message)
    \/ \E frames \in 0..MaxFrames : StoreProcess(frames)

SpecStore == StoreInit /\ [][StoreNext]_vars

-----------------------------------------------------------------------------
(* The drain loop of Engine::process against a UI thread that keeps        *)
(* pushing while the loop runs                                             *)

\* calls are made while the playhead is below this
DrainMaxIndex == 1

\* fx: popped, the commands the drain loop of the current call has popped
DrainInit ==
    /\ EngineInit
    /\ fx = [popped |-> 0]
    /\ ui = [running |-> TRUE, last |-> "none", queue0 |-> None]

\* the host calls Engine::process with a buffer of one frame
DrainBegin ==
    /\ ui.running
    /\ pc = "idle"
    /\ index < DrainMaxIndex
    /\ pc' = "drain"
    /\ buffer' = HostBuffer(1)
    /\ fx' = [popped |-> 0]
    /\ UNCHANGED <<index, playing, retrigger, trance_gate, into_engine,
                   nPushed, nPopped, call, last, atPause, shadow, ui>>

\* `while let Ok(message) = self.into_engine.pop()`: an iteration, taken as
\* long as the pop finds a command; followed up to one pop past the capacity
DrainPop ==
    /\ ui.running
    /\ pc = "drain"
    /\ into_engine # <<>>
    /\ fx.popped <= QueueCapacity
    /\ LET e == Engine_handle(Engine, PopOf(into_engine).message)
       IN  /\ index' = e.index
           /\ playing' = e.playing
           /\ retrigger' = e.retrigger
           /\ trance_gate' = e.trance_gate
    /\ into_engine' = RestOf(into_engine)
    /\ fx' = [popped |-> fx.popped + 1]
    /\ UNCHANGED <<buffer, pc, nPushed, nPopped, call, last, atPause, shadow, ui>>

\* the pop that finds the queue empty ends the loop
DrainStop ==
    /\ ui.running
    /\ pc = "drain"
    /\ into_engine = <<>>
    /\ pc' = "render"
    /\ UNCHANGED <<index, playing, retrigger, trance_gate, into_engine, buffer,
                   nPushed, nPopped, call, last, atPause, shadow, fx, ui>>

\* the rest of the call
DrainRender ==
    /\ ui.running
    /\ pc = "render"
    /\ LET res == Engine_render(Engine, buffer)
       IN  /\ index' = res.engine.index
           /\ playing' = res.engine.playing
           /\ retrigger' = res.engine.retrigger
           /\ trance_gate' = res.engine.trance_gate
           /\ buffer' = res.buffer
    /\ pc' = "idle"
    /\ UNCHANGED <<into_engine, nPushed, nPopped, call, last, atPause, shadow, fx, ui>>

DrainNext ==
    \/ \E message \in UiMessages : UiPush(message)
    \/ DrainBegin
    \/ DrainPop
    \/ DrainStop
    \/ DrainRender

SpecDrain == DrainInit /\ [][DrainNext]_vars

-----------------------------------------------------------------------------
(* RetriggerParameters::new and ::fade_factor called on their own, on the  *)
(* durations the UI sends and on short ones                                *)

\* the playheads the parameters are anchored at
FadeMaxStart == 1

\* the cursors tried are those within this many frames of either end of the
\* repeat window: every cursor of every window but the saturated one
FadeSpan == 15000

\* Note::duration(beats_per_minute), and the same expression in
\* PhotonPlayer::retrigger: 60.0 / beats_per_minute * 4.0 / factor seconds
Note_duration(beats_per_minute, factor) == <<60 * 4, beats_per_minute * factor>>

\* the tempo of main.rs and the tempo of app.rs, and the four note values
UiTempos == {188, 196}
UiFactors == {4, 8, 16, 32}

UiDurations == { Note_duration(bpm, k) : bpm \in UiTempos, k \in UiFactors }

\* the repeat_duration values tried: the UI's, windows of 0, 2, 4, 8 and 12
\* frames (fade_threshold 0, 0, 1, 2, 3), and +infinity
FadeDurations ==
    UiDurations \cup { <<0, 1>>, <<5, 88200>>, <<9, 88200>>, <<17, 88200>>,
                       <<25, 88200>>, <<1, 0>> }

\* fx: the arguments of RetriggerParameters::new, the parameters once it has
\* returned, and once fade_factor has been called: cursor, factor (its value
\* at cursor) and next (its value at cursor + 1, where that is in the window)
FadeInit ==
    /\ EngineInit
    /\ ui = NoUi
    /\ \E repeat_start \in 0..FadeMaxStart, repeat_duration \in FadeDurations :
          fx = [repeat_start |-> repeat_start, repeat_duration |-> repeat_duration,
                parameters |-> None, cursor |-> None, factor |-> None, next |-> None]

\* RetriggerParameters::new(repeat_start, repeat_duration, 0.9); where
\* repeat_start + repeat_samples overflows, the parameters are those of the
\* build without overflow checks, whose window is empty
FadeNew ==
    /\ ~IsSome(fx.parameters)
    /\ fx' = [fx EXCEPT !.parameters =
                 Some(RetriggerParameters_new(fx.repeat_start, fx.repeat_duration, <<9, 10>>))]
    /\ UNCHANGED <<engineVars, ui>>

\* the cursors of the repeat window that are tried
FadeCursors(p) ==
    { c \in p.repeat_start..(p.repeat_end - 1) :
        c < p.repeat_start + FadeSpan \/ c >= p.repeat_end - FadeSpan }

\* parameters.fade_factor(c), for a cursor c of the repeat window
FadeAt ==
    /\ IsSome(fx.parameters)
    /\ ~IsSome(fx.cursor)
    /\ LET p == Unwrap(fx.parameters)
       IN  \E c \in FadeCursors(p) :
              fx' = [fx EXCEPT !.cursor = Some(c),
                               !.factor = Some(Retrigger_fade_factor(p, c)),
                               !.next = IF c + 1 < p.repeat_end
                                        THEN Some(Retrigger_fade_factor(p, c + 1))
                                        ELSE None]
    /\ UNCHANGED <<engineVars, ui>>

FadeNext == FadeNew \/ FadeAt

SpecFade == FadeInit /\ [][FadeNext]_vars

-----------------------------------------------------------------------------
(* core/playback.rs: the output callback of Closure against the events the *)
(* closure thread forwards to it                                           *)

\* events are sent while at most this many wait in the channel
ClosureMaxPending == 2

\* the longest buffer the host hands to the callback, in floats
ClosureMaxLen == 4

PlaybackEvent == {"Play", "Pause", "Restart"}

\* the match of the callback's try_iter loop, folded over the waiting events
RECURSIVE Closure_drain(_, _)
Closure_drain(state, events) ==
    IF events = <<>> THEN state
    ELSE Closure_drain(
             CASE Head(events) = "Play" -> [state EXCEPT !.playing = TRUE]
               [] Head(events) = "Pause" -> [state EXCEPT !.playing = FALSE]
               [] Head(events) = "Restart" -> [state EXCEPT !.start_offset = 0],
             Tail(events))

\* fx: state (the PlaybackState the callback owns), channel (the events sent
\* and not yet received), panicked, copied_at (the start_offset the last
\* callback passed to copy_from_onto, if it called it) and buffer (as the
\* last callback left it)
ClosureInit ==
    /\ EngineInit
    /\ ui = NoUi
    /\ fx = [state |-> [start_offset |-> 0, playing |-> FALSE], channel |-> <<>>,
             panicked |-> FALSE, copied_at |-> None, buffer |-> <<>>]

\* callback_s.send(callback_e)
ClosureSend(e) ==
    /\ ~fx.panicked
    /\ Len(fx.channel) < ClosureMaxPending
    /\ fx' = [fx EXCEPT !.channel = Append(@, e)]
    /\ UNCHANGED <<engineVars, ui>>

\* the output callback on a buffer of n floats
ClosureCallback(n) ==
    /\ ~fx.panicked
    /\ LET state == Closure_drain(fx.state, fx.channel)
           res == copy_from_onto(state.start_offset, [j \in 1..n |-> Garbage])
       IN  fx' = IF state.playing
                 THEN [state |-> IF res.panicked THEN state
                                 ELSE [state EXCEPT !.start_offset = @ + n],
                       channel |-> <<>>, panicked |-> res.panicked,
                       copied_at |-> Some(state.start_offset), buffer |-> res.buffer]
                 ELSE [state |-> state, channel |-> <<>>, panicked |-> FALSE,
                       copied_at |-> None, buffer |-> [j \in 1..n |-> F32_MID]]
    /\ UNCHANGED <<engineVars, ui>>

ClosureNext ==
    \/ \E e \in PlaybackEvent : ClosureSend(e)
    \/ \E n \in 1..ClosureMaxLen : ClosureCallback(n)

SpecClosure == ClosureInit /\ [][ClosureNext]_vars

-----------------------------------------------------------------------------
(* The audio host calling Engine::process again and again, against a UI    *)
(* thread that pushes a few commands and then stops                        *)

\* the UI thread pushes at most this many commands
LiveMaxPushes == 2

\* calls that render a frame are made while the playhead is below this; a
\* call on an empty buffer can always be made
LiveMaxIndex == 1

\* PhotonPlayer pushes a command, the push finding room in the queue
LivePush(message) ==
    /\ nPushed < LiveMaxPushes
    /\ Push(message)

\* the host calls Engine::process on a buffer of `frames` frames
LiveBegin(frames) ==
    /\ index + frames <= LiveMaxIndex
    /\ ProcessBegin(frames)

\* a step of the audio thread
LiveAudio ==
    \/ \E frames \in 0..1 : LiveBegin(frames)
    \/ Pop
    \/ DrainEnd
    \/ Render

LiveNext ==
    \/ \E message \in MessageIntoEngine : LivePush(message)
    \/ LiveAudio

\* a call that has reached the rendering step returns: the step Render takes
LiveReturn == pc = "render" /\ pc' = "idle"

\* the host keeps calling, and a call that has begun runs on: its drain loop
\* pops while the queue holds a command, ends when it does not, and the
\* rendering step returns
SpecLive ==
    /\ Init /\ [][LiveNext]_vars
    /\ WF_vars(\E frames \in 0..1 : LiveBegin(frames))
    /\ WF_vars(Pop)
    /\ WF_vars(DrainEnd)
    /\ WF_pc(LiveReturn)

-----------------------------------------------------------------------------
(* PhotonPlayer's pads and Play button against the Engine: the UI thread   *)
(* pushes, the audio thread pops, handles and renders                      *)

\* the UI acts while at most this many commands wait in the queue
AgreeMaxPending == 0

\* a command as the Engine's match arms bind it: PhotonPlayer's TranceGateOn
\* carries gate_duration = 60 / 196 * 4 / factor, which is the gate of
\* gate_factor = factor at 196 beats per minute
AsHandled(message) ==
    IF message.type = "TranceGateOn"
    THEN [type |-> "TranceGateOn",
          gate_factor |-> (60 * 4 * 196) \div (message.gate_duration[2] * 60 * 4),
          beats_per_minute |-> 196, mix_factor |-> message.mix_factor]
    ELSE message

AgreeInit ==
    /\ EngineInit
    /\ fx = [popped |-> 0]
    /\ ui = [running |-> TRUE, active_retrigger |-> None, active_trance_gate |-> None,
             pc |-> 0, down |-> {}, released |-> {},
             ons |-> [i \in 1..Len(Pads) |-> 0], call |-> None]

\* a UI frame begins
AgreeFrame(down, released) ==
    /\ Len(into_engine) <= AgreeMaxPending
    /\ FrameBegin(down, released)

\* PhotonPlayer::play, from the Play button, between two pads' handlers
AgreePlay ==
    /\ ui.running
    /\ Len(into_engine) <= AgreeMaxPending
    /\ LET r == PushUnwrap(into_engine, [type |-> "Play"])
       IN  /\ into_engine' = r.queue
           /\ ui' = [ui EXCEPT !.running = r.returned]
    /\ UNCHANGED <<index, playing, retrigger, trance_gate, buffer, pc,
                   nPushed, nPopped, call, last, atPause, shadow, fx>>

\* one iteration of the drain loop
AgreePop ==
    /\ ui.running
    /\ pc = "drain"
    /\ into_engine # <<>>
    /\ LET e == Engine_handle(Engine, AsHandled(PopOf(into_engine).message))
       IN  /\ index' = e.index
           /\ playing' = e.playing
           /\ retrigger' = e.retrigger
           /\ trance_gate' = e.trance_gate
    /\ into_engine' = RestOf(into_engine)
    /\ UNCHANGED <<buffer, pc, nPushed, nPopped, call, last, atPause, shadow, fx, ui>>

AgreeNext ==
    \/ \E down \in SUBSET (1..Len(Pads)), released \in SUBSET (1..Len(Pads)) :
          AgreeFrame(down, released)
    \/ PadShow
    \/ AgreePlay
    \/ DrainBegin
    \/ AgreePop
    \/ DrainStop
    \/ DrainRender

SpecAgree == AgreeInit /\ [][AgreeNext]_vars

-----------------------------------------------------------------------------
(* main.rs: the retrigger keys of Photon::update against the Engine        *)

\* a UI frame begins while at most this many commands wait in the queue
PhotonMaxPending == 0

\* Note::Fourth, Eighth, Sixteenth, ThirtySecond, on the keys Q, W, E, R
PhotonNotes == <<4, 8, 16, 32>>

\* the loop over retrigger_pairs from key i on; s holds the note flags, the
\* queue, and whether every unwrap so far has returned
RECURSIVE Photon_keys(_, _, _, _)
Photon_keys(s, i, pressed, released) ==
    IF i > Len(PhotonNotes) \/ ~s.returned THEN s
    ELSE
        LET on == PushUnwrap(s.queue,
                      [type |-> "RetriggerOn",
                       repeat_duration |-> Note_duration(188, PhotonNotes[i]),
                       mix_factor |-> <<4, 5>>])
            s1 == IF i \in pressed /\ ~s.flags[i]
                  THEN [flags |-> IF on.returned THEN [s.flags EXCEPT ![i] = TRUE]
                                  ELSE s.flags,
                        queue |-> on.queue, returned |-> on.returned]
                  ELSE s
            off == PushUnwrap(s1.queue, [type |-> "RetriggerOff"])
            s2 == IF s1.returned /\ i \in released
                  THEN [flags |-> IF off.returned THEN [s1.flags EXCEPT ![i] = FALSE]
                                  ELSE s1.flags,
                        queue |-> off.queue, returned |-> off.returned]
                  ELSE s1
        IN  Photon_keys(s2, i + 1, pressed, released)

\* ui: running, flags (Photon's retrigger map, per note), down (the keys held)
PhotonInit ==
    /\ EngineInit
    /\ fx = [popped |-> 0]
    /\ ui = [running |-> TRUE, flags |-> [i \in 1..Len(PhotonNotes) |-> FALSE],
             down |-> {}]

\* Photon::update in a frame in which the keys `pressed` went down and the
\* keys `released` went up
PhotonUpdate(pressed, released) ==
    /\ ui.running
    /\ Len(into_engine) <= PhotonMaxPending
    /\ pressed \cup released # {}
    /\ pressed \cap ui.down = {}
    /\ released \subseteq (ui.down \cup pressed)
    /\ LET s == Photon_keys([flags |-> ui.flags, queue |-> into_engine, returned |-> TRUE],
                            1, pressed, released)
       IN  /\ into_engine' = s.queue
           /\ ui' = [running |-> s.returned, flags |-> s.flags,
                     down |-> (ui.down \cup pressed) \ released]
    /\ UNCHANGED <<index, playing, retrigger, trance_gate, buffer, pc,
                   nPushed, nPopped, call, last, atPause, shadow, fx>>

\* one iteration of the drain loop
PhotonPop ==
    /\ ui.running
    /\ pc = "drain"
    /\ into_engine # <<>>
    /\ LET e == Engine_handle(Engine, PopOf(into_engine).message)
       IN  /\ index' = e.index
           /\ playing' = e.playing
           /\ retrigger' = e.retrigger
           /\ trance_gate' = e.trance_gate
    /\ into_engine' = RestOf(into_engine)
    /\ UNCHANGED <<buffer, pc, nPushed, nPopped, call, last, atPause, shadow, fx, ui>>

PhotonNext ==
    \/ \E pressed \in SUBSET (1..Len(PhotonNotes)), released \in SUBSET (1..Len(PhotonNotes)) :
          PhotonUpdate(pressed, released)
    \/ DrainBegin
    \/ PhotonPop
    \/ DrainStop
    \/ DrainRender

SpecPhoton == PhotonInit /\ [][PhotonNext]_vars

-----------------------------------------------------------------------------
(* Properties of Engine::process *)

\* what the last finished call started from, once it has rendered
Rendered == pc = "idle" /\ IsSome(call.before)
Before == Unwrap(call.before)

BothInactive(e) == ~IsSome(e.retrigger.parameters) /\ ~IsSome(e.trance_gate.parameters)

\* C1: a call that finds playing false after the drain writes 0.0 to every
\* element of the buffer and leaves the playhead, the Retrigger and the
\* TranceGate exactly as they were.
C1_SilenceWhenNotPlaying ==
    (Rendered /\ ~Before.playing) =>
        /\ Len(buffer) = 2 * call.frames
        /\ \A i \in 1..Len(buffer) : buffer[i] = Zero
        /\ index = Before.index
        /\ retrigger = Before.retrigger
        /\ trance_gate = Before.trance_gate

\* C1 witness: a silent call made after some frames were played, Retrigger on
C1_Witness ==
    /\ Rendered /\ ~Before.playing
    /\ index > 0
    /\ IsSome(retrigger.parameters)

\* C2: playing with both effects off, a call at playhead p writes frame p + i of
\* the track to output frame i, silence for frames past the end of the track,
\* and leaves the playhead at p + buffer.len() / 2, also past the end.
C2_DryPlayback ==
    (Rendered /\ Before.playing /\ BothInactive(Before)) =>
        /\ Len(buffer) = 2 * call.frames
        /\ index = Before.index + call.frames
        /\ \A i \in 0..(call.frames - 1) : \A ch \in {0, 1} :
              buffer[2 * i + 1 + ch] =
                 IF 2 * (Before.index + i) < Len(samples)
                 THEN SampleAt(2 * (Before.index + i) + ch)
                 ELSE Zero

\* C2 witness: a dry call that started inside the track and ran past its end
C2_Witness ==
    /\ Rendered /\ Before.playing /\ BothInactive(Before)
    /\ Before.index < NumFrames
    /\ index > NumFrames

\* the Engine after handling the messages of `entries` one by one, first to last
RECURSIVE HandleAll(_, _)
HandleAll(e, entries) ==
    IF entries = <<>> THEN e
    ELSE HandleAll(Engine_handle(e, Head(entries).message), Tail(entries))

\* C3: commands are consumed in the order they were pushed: the queue holds
\* exactly the pushed commands not yet popped, oldest first, the commands a
\* call has popped are the next ones in push order, and the Engine is what
\* handling them one by one in that order makes of the Engine the call began with.
C3_FifoOrder ==
    /\ nPopped + Len(into_engine) = nPushed
    /\ \A i \in 1..Len(into_engine) : into_engine[i].seq = nPopped + i
    /\ (pc \in {"drain", "render"}) =>
          /\ nPopped = call.popped0 + Len(call.drained)
          /\ \A i \in 1..Len(call.drained) : call.drained[i].seq = call.popped0 + i
          /\ Engine = HandleAll(call.engine0, call.drained)

\* C3 witness: a drain that popped RetriggerOn and then RetriggerOff, in that
\* order, and so left the Retrigger off
C3_Witness ==
    /\ pc = "render"
    /\ Len(call.drained) >= 2
    /\ call.drained[1].message.type = "RetriggerOn"
    /\ call.drained[2].message.type = "RetriggerOff"
    /\ ~IsSome(retrigger.parameters)

\* C4: when a call gets to render, every command pushed before the call began
\* has been popped and handled in it, so the frames it renders reflect them: if
\* the last of the commands handled is Play, the call renders with playing true.
C4_PushedBeforeCallApplied ==
    (pc = "render") =>
        /\ nPopped >= call.pushed0
        /\ \A k \in (call.popped0 + 1)..call.pushed0 :
              \E i \in 1..Len(call.drained) : call.drained[i].seq = k
        /\ (call.drained # <<>> /\ call.drained[Len(call.drained)].message.type = "Play")
              => playing

\* C4 witness: two commands pushed before the call, Play the second, both
\* handled when the call renders
C4_Witness ==
    /\ pc = "render"
    /\ call.pushed0 >= call.popped0 + 2
    /\ Len(call.drained) >= 2
    /\ call.drained[2].message.type = "Play"
    /\ playing

\* C5 as claimed: no command pushed after a call began is popped in that call,
\* wherever the call was when the command was pushed.
C5_PushedDuringCallWaits ==
    (pc \in {"drain", "render"}) => nPopped <= call.pushed0

\* C5 as amended: once the drain loop of a call has found the queue empty, the
\* call pops nothing more; a command pushed from then on stays in the queue
\* until the next call.
C5_PushedAfterDrainWaits ==
    IsSome(call.drainEnd) =>
        /\ nPopped = Unwrap(call.drainEnd)
        /\ \A i \in 1..Len(into_engine) : into_engine[i].seq > Unwrap(call.drainEnd)

\* C5 witness: the call has rendered and a command pushed between the end of
\* its drain and its return is still in the queue
C5_Witness ==
    /\ Rendered
    /\ call.left >= 1
    /\ Len(into_engine) >= call.left
    /\ nPopped = Unwrap(call.drainEnd)

\* the last message popped in the call that is draining, if any
LastPopped == Unwrap(last)

\* repeat_samples for a duration of n/d seconds: the product with 44100, truncated
TruncatedFrames(duration) == (duration[1] * 44100) \div duration[2]

\* C6: popping RetriggerOn at playhead p leaves the Retrigger active with
\* repeat_start = p, repeat_end = p + repeat_samples and cursor = p, p being
\* the playhead before the call renders anything, playing or not.
C6_RetriggerAnchorsAtPlayhead ==
    (IsSome(last) /\ LastPopped.message.type = "RetriggerOn") =>
        /\ IsSome(retrigger.parameters)
        /\ Unwrap(retrigger.parameters).repeat_start = index
        /\ Unwrap(retrigger.parameters).repeat_end =
              index + TruncatedFrames(LastPopped.message.repeat_duration)
        /\ retrigger.index = Some(index)
        /\ index = call.engine0.index

\* C6 witness: RetriggerOn popped while paused, away from the head of the track
C6_Witness ==
    /\ IsSome(last) /\ LastPopped.message.type = "RetriggerOn"
    /\ ~playing
    /\ index > 0
    /\ retrigger.index = Some(index)

\* C7: RetriggerOn popped while the Retrigger is already active replaces its
\* parameters by those derived from the new command at the current playhead
\* and moves the cursor there; nothing of the first activation is kept.
C7_ReactivationReanchors ==
    (/\ IsSome(last) /\ LastPopped.message.type = "RetriggerOn"
     /\ IsSome(LastPopped.retrigger.parameters)) =>
        LET m == LastPopped.message
            n == TruncatedFrames(m.repeat_duration)
        IN  retrigger =
               [parameters |-> Some([repeat_start   |-> index,
                                     repeat_end     |-> index + n,
                                     fade_threshold |-> Min(n \div 4, 441),
                                     mix_factor     |-> Clamp01(m.mix_factor)]),
                index |-> Some(index)]

\* C7 witness: the second RetriggerOn, of another duration, popped when the
\* first activation's cursor had wrapped and was behind the playhead
C7_Witness ==
    /\ IsSome(last) /\ LastPopped.message.type = "RetriggerOn"
    /\ IsSome(LastPopped.retrigger.parameters)
    /\ Unwrap(LastPopped.retrigger.index) < index
    /\ Unwrap(LastPopped.retrigger.parameters).repeat_end
          - Unwrap(LastPopped.retrigger.parameters).repeat_start
       # TruncatedFrames(LastPopped.message.repeat_duration)
    /\ retrigger.index = Some(index)

\* C8: whenever a call renders with both effects off, its output and the
\* playhead are those of an Engine that was given the same Play/Pause commands
\* and the same calls and never any effect command.
C8_PositionPreserved ==
    (Rendered /\ BothInactive(Engine)) =>
        /\ buffer = shadow.buffer
        /\ index = shadow.index
        /\ playing = shadow.playing

\* C8 witness: track frames rendered with both effects off after a call whose
\* output an effect had changed
C8_Witness ==
    /\ Rendered /\ BothInactive(Engine)
    /\ shadow.diverged
    /\ Before.playing
    /\ Before.index < NumFrames
    /\ buffer = shadow.buffer

\* the position in the gate cycle and the phase of output frame i of a call
\* that the gate enters with cursor cur and phase silent
RECURSIVE GateAt(_, _, _, _)
GateAt(p, cur, silent, i) ==
    LET wrap == cur >= p.gate_end
        c == IF wrap THEN p.gate_start ELSE cur
        s == IF wrap THEN ~silent ELSE silent
    IN  IF i = 0 THEN [cursor |-> c, silent |-> s] ELSE GateAt(p, c + 1, s, i - 1)

\* the gate factor of output frame i: the envelope (0 while the gate is
\* closed) weighted by mix_factor, plus 1 - mix_factor
GateFactor(g, i) ==
    LET p  == Unwrap(g.parameters)
        at == GateAt(p, Unwrap(g.index), g.silent, i)
        t  == IF at.silent THEN Zero ELSE TranceGate_fade_factor(p, at.cursor)
    IN  Add(Mul(t, p.mix_factor), Sub(One, p.mix_factor))

\* C9: with both effects active, every output frame is the frame Retrigger
\* wrote, multiplied by that frame's gate factor.
C9_GateModulatesRetriggerOutput ==
    (/\ Rendered /\ Before.playing
     /\ IsSome(Before.retrigger.parameters) /\ IsSome(Before.trance_gate.parameters)) =>
        \A i \in 0..(call.frames - 1) : \A ch \in {0, 1} :
            buffer[2 * i + 1 + ch] =
               Mul(call.wet[2 * i + 1 + ch], GateFactor(Before.trance_gate, i))

\* C10: handling Play or Pause leaves both effects as they were, and from the
\* Pause on, through any number of calls made while paused and through the
\* next Play, both effects stay exactly as the Pause found them for as long as
\* no effect command is handled.
C10_PlayPauseOrthogonal ==
    /\ (IsSome(last) /\ LastPopped.message.type \in {"Play", "Pause"}) =>
          /\ retrigger = LastPopped.retrigger
          /\ trance_gate = LastPopped.trance_gate
    /\ IsSome(atPause) =>
          /\ retrigger = Unwrap(atPause).retrigger
          /\ trance_gate = Unwrap(atPause).trance_gate

\* C10 witness: Play handled after a Pause that found the Retrigger active and
\* after at least one call made while paused
C10_Witness ==
    /\ IsSome(last) /\ LastPopped.message.type = "Play"
    /\ IsSome(atPause) /\ Unwrap(atPause).calls >= 1
    /\ IsSome(Unwrap(atPause).retrigger.parameters)
    /\ IsSome(retrigger.parameters)
    /\ playing

-----------------------------------------------------------------------------
(* Properties of the two effects *)

Active(effect) == IsSome(effect.parameters)

\* C11: each effect is Inactive or Active: its parameters are present exactly
\* when its cursor is; handling its On leaves it active, handling its Off
\* leaves it inactive (also when it was inactive already); no other command
\* and no call of process changes whether it is active.
C11_EffectLifecycle ==
    /\ IsSome(retrigger.parameters) <=> IsSome(retrigger.index)
    /\ IsSome(trance_gate.parameters) <=> IsSome(trance_gate.index)
    /\ IsSome(last) =>
          LET type == LastPopped.message.type
          IN  /\ type = "RetriggerOn" => Active(retrigger)
              /\ type = "RetriggerOff" => ~Active(retrigger)
              /\ type \notin {"RetriggerOn", "RetriggerOff"} =>
                    (Active(retrigger) <=> Active(LastPopped.retrigger))
              /\ type = "TranceGateOn" => Active(trance_gate)
              /\ type = "TranceGateOff" => ~Active(trance_gate)
              /\ type \notin {"TranceGateOn", "TranceGateOff"} =>
                    (Active(trance_gate) <=> Active(LastPopped.trance_gate))
    /\ Rendered =>
          /\ Active(retrigger) <=> Active(Before.retrigger)
          /\ Active(trance_gate) <=> Active(Before.trance_gate)

\* C11 witness: RetriggerOff handled while the Retrigger was active and the
\* TranceGate, which stays as it is, was active too
C11_Witness ==
    /\ IsSome(last) /\ LastPopped.message.type = "RetriggerOff"
    /\ Active(LastPopped.retrigger) /\ ~Active(retrigger)
    /\ Active(LastPopped.trance_gate) /\ Active(trance_gate)

\* the last step of the audio thread was a call that returned; the Engine
\* it started from
FxRendered == IsSome(fx.before) /\ ~fx.panicked
FxBefore == Unwrap(fx.before)

\* that call ran Retrigger::process on an active Retrigger
RetriggerRendered == FxRendered /\ FxBefore.playing /\ Active(FxBefore.retrigger)

\* C12 as stated: after a call that rendered n frames from the cursor value
\* i_initial, the stored cursor is
\* repeat_start + ((i_initial - repeat_start + n) mod (repeat_end - repeat_start)),
\* and so lies in [repeat_start, repeat_end).
C12_StoredCursorWrapped ==
    RetriggerRendered =>
        LET p == Unwrap(FxBefore.retrigger.parameters)
            L == p.repeat_end - p.repeat_start
            i_initial == Unwrap(FxBefore.retrigger.index)
            stored == Unwrap(fx.engine.retrigger.index)
        IN  L >= 1 =>
              /\ stored = p.repeat_start + ((i_initial - p.repeat_start + fx.frames) % L)
              /\ p.repeat_start <= stored /\ stored < p.repeat_end

\* C12, amended: the cursor is wrapped at the head of a frame and stored
\* after the increment, so after a call that rendered n >= 1 frames the
\* stored cursor is one past the position of the last frame rendered,
\* repeat_start + ((i_initial - repeat_start + n - 1) mod L) + 1 for
\* L = repeat_end - repeat_start >= 1, which lies in (repeat_start, repeat_end];
\* where repeat_end <= repeat_start it is repeat_start + 1.
C12_StoredCursorOnePastLastFrame ==
    RetriggerRendered =>
        LET p == Unwrap(FxBefore.retrigger.parameters)
            L == p.repeat_end - p.repeat_start
            i_initial == Unwrap(FxBefore.retrigger.index)
            stored == Unwrap(fx.engine.retrigger.index)
        IN  /\ p.repeat_start <= i_initial
            /\ L >= 1 =>
                 /\ stored = p.repeat_start
                               + ((i_initial - p.repeat_start + fx.frames - 1) % L) + 1
                 /\ p.repeat_start < stored /\ stored <= p.repeat_end
            /\ L <= 0 => stored = p.repeat_start + 1

\* C12 witness: a call that began with the cursor at repeat_end, wrapped, and
\* ended a repetition exactly, so that repeat_end is stored again
C12_Witness ==
    /\ RetriggerRendered
    /\ LET p == Unwrap(FxBefore.retrigger.parameters)
       IN  /\ p.repeat_end - p.repeat_start = fx.frames
           /\ Unwrap(FxBefore.retrigger.index) = p.repeat_end
           /\ Unwrap(fx.engine.retrigger.index) = p.repeat_end

\* C13: with the Retrigger active at mix_factor 1 and L = repeat_samples >= 1,
\* the k-th frame rendered since the activation (k from 0, over calls of any
\* sizes) is the SampleStore frame repeat_start + (k mod L) times that
\* position's fade factor, with nothing of the dry track in it (silence where
\* that position is past the end of the store); where the fade factor is 1
\* the frame is the sample itself.
C13_RetriggerLoopsWindow ==
    RetriggerRendered =>
        LET p == Unwrap(FxBefore.retrigger.parameters)
            L == p.repeat_end - p.repeat_start
        IN  (p.mix_factor = One /\ L >= 1) =>
              \A i \in 0..(fx.frames - 1) : \A ch \in {0, 1} :
                 LET k == fx.since_r - fx.frames + i
                     pos == p.repeat_start + (k % L)
                     ff == Retrigger_fade_factor(p, pos)
                     out == fx.wet[2 * i + 1 + ch]
                 IN  /\ out = IF pos * 2 >= Len(samples) THEN Zero
                               ELSE Mul(ff, SampleAt(2 * pos + ch))
                     /\ (ff = One /\ pos * 2 < Len(samples)) =>
                           out = SampleAt(2 * pos + ch)

\* C13 witness: a window of 2 frames that does not start at the head of the
\* track, in its second repetition or later, the call's last frame read from
\* inside the store
C13_Witness ==
    /\ RetriggerRendered
    /\ LET p == Unwrap(FxBefore.retrigger.parameters)
       IN  /\ p.mix_factor = One
           /\ p.repeat_start >= 1 /\ p.repeat_end = p.repeat_start + 2
           /\ fx.since_r >= 3
           /\ fx.wet[2 * fx.frames] # Zero
           /\ fx.wet[2 * fx.frames] # DryFrames(FxBefore.index, 0, HostBuffer(fx.frames)).buffer[2 * fx.frames]

\* x / y for a y that is not zero
Ratio(x, y) == Norm(x[1] * y[2] * (IF y[1] < 0 THEN -1 ELSE 1), x[2] * Abs(y[1]))

\* C14: while the TranceGate is active, the Retrigger inactive and the Engine
\* playing, every frame written is the dry frame times one gate factor g with
\* 0.1 <= g <= 1.0, whatever the mix_factor and the position: a dry frame that
\* is not zero is never silenced.
C14_GateFactorAboveFloor ==
    (/\ Rendered /\ Before.playing
     /\ Active(Before.trance_gate) /\ ~Active(Before.retrigger)) =>
        \A i \in 0..(call.frames - 1) :
            LET dry(ch) == shadow.buffer[2 * i + 1 + ch]
                out(ch) == buffer[2 * i + 1 + ch]
                g == Ratio(out(0), dry(0))
            IN  IF dry(0) = Zero THEN out(0) = Zero /\ out(1) = Zero
                ELSE /\ out(1) = Mul(dry(1), g)
                     /\ ~Less(g, <<1, 10>>)
                     /\ ~Less(One, g)

\* the last call ran TranceGate::process on an active TranceGate
GateRendered == FxRendered /\ FxBefore.playing /\ Active(FxBefore.trance_gate)

\* the triangular gate factor at position pos of a gate of G frames:
\* 0.1 + 0.9 * |pos - G/2| / (G/2)
Triangle(pos, G) == Add(<<1, 10>>, Mul(<<9, 10>>, Norm(Abs(2 * pos - G), G)))

\* C15: with the TranceGate at mix_factor 1 and a gate of G frames, the k-th
\* frame rendered since the activation is the gate's input frame times the
\* triangular factor of period G: 1.0 at k mod G = 0, down to 0.1 at G/2 and
\* back (1.0, 0.55, 0.1, 0.55 for G = 4).
C15_TriangularGate ==
    GateRendered =>
        LET p == Unwrap(FxBefore.trance_gate.parameters)
            G == p.gate_end - p.gate_start
        IN  (p.mix_factor = One /\ G >= 1) =>
              \A i \in 0..(fx.frames - 1) : \A ch \in {0, 1} :
                 LET k == fx.since_g - fx.frames + i
                 IN  fx.buffer[2 * i + 1 + ch] =
                        Mul(fx.wet[2 * i + 1 + ch], Triangle(k % G, G))

\* C16: TranceGateOn handled while the TranceGate is active leaves it exactly
\* as the same TranceGateOn, handled at the same playhead, leaves an inactive
\* TranceGate: parameters, index and the open/closed phase, whatever the
\* phase was.
C16_ReactivationResetsGate ==
    (/\ IsSome(last) /\ LastPopped.message.type = "TranceGateOn"
     /\ Active(LastPopped.trance_gate)) =>
        trance_gate =
            TranceGate_initialize(TranceGate_new,
                TranceGateParameters_new(index, LastPopped.message.gate_factor,
                                         LastPopped.message.beats_per_minute,
                                         LastPopped.message.mix_factor))

\* C17: process(track_index, buffer) of an effect that is inactive, Retrigger
\* or TranceGate, changes nothing: the buffer comes back element for element
\* and the effect's fields are as before, for any track_index and buffer.
C17_InactiveProcessIsNoOp ==
    (IsSome(fx.result) /\ ~Active(fx.state)) =>
        /\ Unwrap(fx.result).buffer = fx.input
        /\ Unwrap(fx.result).effect = fx.state

\* C17 witness: an inactive Retrigger called with a buffer of two frames that
\* holds what the host left in it, at a track_index inside the track
C17_Witness ==
    /\ IsSome(fx.result) /\ fx.effect = "retrigger" /\ ~Active(fx.state)
    /\ Len(fx.input) = 4 /\ fx.input[1] = Garbage
    /\ fx.track_index = 1
    /\ Unwrap(fx.result).buffer[1] = Garbage

\* C18: Engine::process never panics: whatever commands it has handled (any
\* duration from 0 up, any mix_factor) and whatever the buffer size, every
\* index it reads samples at or writes the buffer at is in bounds, and no
\* usize operation of the parameter derivation or of fade_factor
\* (repeat_end - fade, until - index, fade - (index - after)) overflows or
\* goes below zero.
C18_NeverPanics == ~fx.panicked /\ fx.faults = {}

\* C19: the parameters derived from every RetriggerOn the Engine handles have
\* repeat_samples = repeat_end - repeat_start >= 1, fade_threshold >= 1 and
\* fade_threshold <= repeat_samples / 2: a duration of less than one frame is
\* clamped to one frame.
C19_RetriggerParametersClamped ==
    Active(fx.engine.retrigger) =>
        LET p == Unwrap(fx.engine.retrigger.parameters)
            repeat_samples == p.repeat_end - p.repeat_start
        IN  /\ repeat_samples >= 1
            /\ p.fade_threshold >= 1
            /\ 2 * p.fade_threshold <= repeat_samples

-----------------------------------------------------------------------------
(* Properties of the UI thread *)

\* C20: a push the UI makes while the queue holds its 8 messages fails
\* without blocking: the UI drops the command and keeps running, and the
\* queue is as the push found it.
C20_FullQueueDropsCommand ==
    ui.last = "full" =>
        /\ ui.running
        /\ into_engine = Unwrap(ui.queue0)

\* the last handler call PhotonPlayer made for a pad
PadCalled == IsSome(ui.call)
PadCall == Unwrap(ui.call)

\* C21: a pad release (Off) for factor k pushes the effect's Off command and
\* clears the asserted factor only if k is the factor asserted for that
\* effect, and does both then; a release for another factor, or with nothing
\* asserted, pushes nothing and leaves the asserted factor as it is.
C21_ReleaseOfAssertedFactorOnly ==
    (PadCalled /\ PadCall.event = "Off") =>
        LET k == PadCall.pad.factor
        IN  /\ (PadCall.pushed # <<>> \/ PadCall.after # PadCall.before) =>
                  PadCall.before = Some(k)
            /\ (PadCall.before = Some(k) /\ PadCall.returned) =>
                  /\ PadCall.pushed = <<PadOff(PadCall.pad)>>
                  /\ PadCall.after = None
            /\ PadCall.before # Some(k) =>
                  /\ PadCall.pushed = <<>>
                  /\ PadCall.after = PadCall.before
                  /\ PadCall.returned

\* C21 witness: the pad of factor 4 is released while factor 8 is asserted for
\* the Retrigger, after the pad of factor 8 was pressed over it
C21_Witness ==
    /\ PadCalled /\ PadCall.event = "Off"
    /\ PadCall.pad = Pads[1]
    /\ PadCall.before = Some(Pads[2].factor)
    /\ ui.active_retrigger = Some(Pads[2].factor)
    /\ PadCall.pushed = <<>>

\* C22: pressing factor k2 while another factor k1 is asserted pushes one On
\* for k2, no Off, and makes k2 the asserted factor; an On event for the
\* factor already asserted pushes nothing; so a pad that is held pushes one On
\* however many UI frames it is held for.
C22_HeldPadPushesOneOn ==
    /\ (PadCalled /\ PadCall.event = "On") =>
          LET k == PadCall.pad.factor
          IN  /\ (IsSome(PadCall.before) /\ PadCall.before # Some(k)) =>
                    /\ PadCall.pushed = <<PadOn(PadCall.pad)>>
                    /\ PadCall.after = Some(k)
              /\ PadCall.before = Some(k) =>
                    /\ PadCall.pushed = <<>>
                    /\ PadCall.after = Some(k)
    /\ \A i \in 1..Len(Pads) : ui.ons[i] <= 1

-----------------------------------------------------------------------------
(* Properties of SamplesInMemory::copy_from_onto *)

-----------------------------------------------------------------------------
(* Properties of the sample store *)

\* C24: the store of a constructed Engine has even length, an odd store
\* being rejected at construction, and no read of samples[2i + 1] by the dry
\* loop falls outside the store
C24_StoreLengthEven ==
    IsSome(fx.engine) =>
        /\ Len(Unwrap(fx.engine).samples) % 2 = 0
        /\ ~fx.panicked

-----------------------------------------------------------------------------
(* Properties of the playhead *)

\* C25: the playhead never decreases: a call of process moves it on by the
\* call's frames when playing is true after the drain and leaves it where it
\* was otherwise, whether or not an effect is active, and handling a command
\* leaves it where it was
C25_PlayheadMonotonic ==
    [][ /\ fx'.engine.index >= fx.engine.index
        /\ IF IsSome(fx'.before) /\ ~fx'.panicked
           THEN fx'.engine.index =
                    fx.engine.index + (IF fx.engine.playing THEN fx'.frames ELSE 0)
           ELSE fx'.engine.index = fx.engine.index ]_vars

\* a call with both effects active has moved the playhead past the end of the
\* track
C25_Witness ==
    /\ FxRendered
    /\ FxBefore.playing
    /\ Active(FxBefore.retrigger)
    /\ Active(FxBefore.trance_gate)
    /\ fx.engine.index = FxBefore.index + fx.frames
    /\ fx.engine.index > NumFrames

-----------------------------------------------------------------------------
(* Properties of an Engine that has not been started *)

\* C27: a new Engine is not playing, has its playhead at 0 and both effects
\* inactive; and as long as no Play has been handled, whatever effect
\* commands and Pauses have been, the Engine is not playing, its playhead is
\* at 0, and every call leaves the whole buffer at zero
C27_SilentUntilPlay ==
    /\ ~Engine_new.playing
    /\ Engine_new.index = 0
    /\ ~Active(Engine_new.retrigger)
    /\ ~Active(Engine_new.trance_gate)
    /\ ~fx.played =>
          /\ ~fx.engine.playing
          /\ fx.engine.index = 0
          /\ FxRendered =>
                /\ Len(fx.buffer) = 2 * fx.frames
                /\ \A j \in 1..Len(fx.buffer) : fx.buffer[j] = Zero

\* a call before any Play, with both effects switched on
C27_Witness ==
    /\ ~fx.played
    /\ FxRendered
    /\ fx.frames = MaxFrames
    /\ Active(fx.engine.retrigger)
    /\ Active(fx.engine.trance_gate)
    /\ fx.buffer = quiet(HostBuffer(MaxFrames))

-----------------------------------------------------------------------------
(* Properties of the drain loop *)

\* C26: however the UI thread's pushes interleave with it, the drain loop of
\* one call pops at most as many commands as the queue can hold
C26_DrainBoundedByCapacity == fx.popped <= QueueCapacity

-----------------------------------------------------------------------------
(* Properties of RetriggerParameters *)

\* C28: at every cursor c of the repeat window, fade_factor(c) is above 0 and
\* at most 1; it does not decrease from c to c + 1 while both are below
\* repeat_start + fade_threshold, is 1 from repeat_start + fade_threshold to
\* repeat_end - fade_threshold, and does not increase from c to c + 1 once c
\* is past repeat_end - fade_threshold
C28_FadeFactorShape ==
    IsSome(fx.cursor) =>
        LET p == Unwrap(fx.parameters)
            c == Unwrap(fx.cursor)
            f == Unwrap(fx.factor)
            fade == p.fade_threshold
        IN  /\ Less(Zero, f) /\ ~Less(One, f)
            /\ (p.repeat_start + fade <= c /\ c <= p.repeat_end - fade) => f = One
            /\ (c + 1 < p.repeat_start + fade) => ~Less(Unwrap(fx.next), f)
            /\ (p.repeat_end - fade < c /\ IsSome(fx.next)) => ~Less(f, Unwrap(fx.next))

\* a cursor in the release of a window whose fade is the full 441 frames,
\* where the factor is below 1 and still falling
C28_Witness ==
    /\ IsSome(fx.cursor)
    /\ IsSome(fx.next)
    /\ Unwrap(fx.parameters).fade_threshold = FadeCap
    /\ Unwrap(fx.cursor) > Unwrap(fx.parameters).repeat_end - FadeCap
    /\ Less(Unwrap(fx.factor), One)
    /\ Less(Unwrap(fx.next), Unwrap(fx.factor))


\* C29: for every repeat_duration the UI sends, the length of the repeat
\* window, repeat_end - repeat_start, is repeat_duration * 44100 rounded to
\* the nearest integer
C29_RepeatSamplesRounded ==
    (IsSome(fx.parameters) /\ fx.repeat_duration \in UiDurations) =>
        LET p == Unwrap(fx.parameters)
            n == fx.repeat_duration[1] * SampleRate
            d == fx.repeat_duration[2]
        IN  p.repeat_end - p.repeat_start = (2 * n + d) \div (2 * d)

-----------------------------------------------------------------------------
(* Properties of the Retrigger at the end of the track *)

\* C30: in a call with the Retrigger active, frame i of the output is a wet
\* term plus a dry term, each silenced on its own: the wet term is 0 when the
\* cursor's frame is past the end of the track, the dry term is 0 when frame
\* track_index + i is; the cursor goes on by one per frame and wraps at
\* repeat_end all the same; and no read is out of range, wherever the repeat
\* window lies
C30_SilencePastEnd ==
    /\ "bounds" \notin fx.faults
    /\ RetriggerRendered =>
          LET p == Unwrap(FxBefore.retrigger.parameters)
              L == p.repeat_end - p.repeat_start
              i_initial == Unwrap(FxBefore.retrigger.index)
              pos(i) == IF L >= 1
                        THEN p.repeat_start + ((i_initial - p.repeat_start + i) % L)
                        ELSE p.repeat_start
          IN  /\ Unwrap(fx.engine.retrigger.index) = pos(fx.frames - 1) + 1
              /\ \A i \in 0..(fx.frames - 1) : \A ch \in {0, 1} :
                    LET wet == IF pos(i) * 2 >= Len(samples) THEN <<0, 1>>
                               ELSE Mul(Mul(Retrigger_fade_factor(p, pos(i)),
                                            samples[pos(i) * 2 + ch + 1]), p.mix_factor)
                        dry == IF (FxBefore.index + i) * 2 >= Len(samples) THEN <<0, 1>>
                               ELSE Mul(samples[(FxBefore.index + i) * 2 + ch + 1],
                                        Sub(One, p.mix_factor))
                    IN  fx.wet[2 * i + 1 + ch] = Add(wet, dry)

\* a call on a window that straddles the end of the track: its first frame is
\* silent, the cursor and the playhead both being past the end, and its second
\* is not, the cursor having wrapped back into the track while the playhead
\* stays past the end
C30_Witness ==
    /\ RetriggerRendered
    /\ fx.frames = 2
    /\ LET p == Unwrap(FxBefore.retrigger.parameters)
       IN  /\ p.repeat_start < NumFrames /\ NumFrames < p.repeat_end
           /\ Unwrap(FxBefore.retrigger.index) >= NumFrames
           /\ FxBefore.index >= NumFrames
           /\ fx.wet[1] = Zero /\ fx.wet[2] = Zero
           /\ fx.wet[3] # Zero /\ fx.wet[4] # Zero
           /\ Unwrap(fx.engine.retrigger.index) = p.repeat_start + 1

-----------------------------------------------------------------------------
(* Properties of the Closure playback thread *)

\* C31: whatever Play, Pause and Restart events and callbacks have happened,
\* the callback has not passed copy_from_onto a start_offset at or past the
\* end of the store, and has not panicked
C31_CallbackChecksEnd ==
    /\ ~fx.panicked
    /\ IsSome(fx.copied_at) => Unwrap(fx.copied_at) < Len(samples)

-----------------------------------------------------------------------------
(* Properties of the command queue under a fair audio host *)

\* C32: with the audio host calling process again and again, the s-th command
\* pushed is eventually popped and handled by the Engine, for every s; and,
\* the UI having stopped pushing, the queue is eventually empty for good
C32_CommandsEventuallyApplied ==
    /\ \A s \in 1..LiveMaxPushes : (nPushed >= s) ~> (nPopped >= s)
    /\ <>[](into_engine = <<>>)

\* every command the UI pushed has been popped by a call that has since
\* returned, the last of them a Play that the Engine has applied
C32_Witness ==
    /\ nPushed = LiveMaxPushes
    /\ nPopped = LiveMaxPushes
    /\ into_engine = <<>>
    /\ Rendered
    /\ Before.playing
    /\ index = LiveMaxIndex

-----------------------------------------------------------------------------
(* Properties of the UI and the Engine together *)

\* C33: no push having failed, whenever the queue is empty and no call of
\* process is running, the Engine's Retrigger is active exactly when
\* PhotonPlayer's active_retrigger is Some, and its TranceGate exactly when
\* active_trance_gate is Some
C33_UiAndEngineAgree ==
    (ui.running /\ pc = "idle" /\ into_engine = <<>>) =>
        /\ Active(retrigger) <=> IsSome(ui.active_retrigger)
        /\ Active(trance_gate) <=> IsSome(ui.active_trance_gate)

\* after a call that found the queue empty at its end: the Retrigger pad of
\* factor 8 has displaced that of factor 4 and is asserted, the TranceGate
\* pad has been released, and the Engine is playing with the Retrigger on
\* and the TranceGate off
C33_Witness ==
    /\ ui.running /\ pc = "idle" /\ into_engine = <<>>
    /\ playing
    /\ ui.active_retrigger = Some(8)
    /\ ui.active_trance_gate = None
    /\ Active(retrigger) /\ ~Active(trance_gate)
    /\ IsSome(ui.call) /\ Unwrap(ui.call).event = "Off"
    /\ Unwrap(ui.call).pad.effect = "trance_gate" /\ Unwrap(ui.call).pushed # <<>>

-----------------------------------------------------------------------------
(* Properties of the Photon UI of main.rs *)

\* C34: whenever one of Photon's retrigger note flags is set, the queue is
\* empty and no call of process is running, the Engine's Retrigger is active
C34_OffOnlyForAssertedNote ==
    (ui.running /\ pc = "idle" /\ into_engine = <<>>
        /\ \E i \in 1..Len(PhotonNotes) : ui.flags[i]) => Active(retrigger)

=============================================================================
